---- MODULE Spec2Model ----
(***************************************************************************)
(* A model of copper, a generator of minecraft datapacks:                  *)
(*   - the command script written by Function::run (datapack/function.rs), *)
(*   - the text rendering of selectors and coordinates (core/mod.rs),      *)
(*   - the JSON encoding of identifiers, number providers, item modifiers  *)
(*     and predicates (datapack/item_modifier.rs, datapack/predicate.rs).  *)
(*                                                                         *)
(* Text is a sequence of tokens: every separator the code writes (" ",     *)
(* ",", "[", "]", "=", "!", "..", "\n") is a token of its own, and Str     *)
(* concatenates a token sequence into the string the file holds.           *)
(* An Option is a record: [none |-> TRUE] is None and [some |-> v] is       *)
(* Some(v).  An f64 is held in tenths (5 is 0.5, 50 is 5.0).               *)
(* A value handed to the serializer is a record tagged with its Rust type, *)
(* a JSON document a tree of records (JInt, JStr, JObj, ...); the sets of  *)
(* values the actions draw from (Items, Providers, Leaves, ...) are the    *)
(* inputs of the model.                                                    *)
(***************************************************************************)
EXTENDS Integers, Sequences, FiniteSets, TLC

VARIABLES
    out,      \* Function.out: the tokens written to the .mcfunction file
    prefix,   \* Function.prefix
    runs,     \* the number of Function::run calls made on the function
    cmd,      \* the command given to the last Function::run call
    ovr,      \* the fields of cmd given by struct update, the others being the constructor's
    mark,     \* Len(out) before the last Function::run call
    sel,      \* the Selector under construction
    text,     \* the tokens Display wrote for sel, <<>> while it is not rendered
    value,    \* the value handed to the serializer
    doc,      \* the JSON document the serializer produced for value
    fs,       \* the directories and files under the datapack's directory
    call,     \* the last call made on the datapack, with what the sink did and how it ended
    scores,   \* the ScoreValues alive, each with the file description it writes through
    offset,   \* the position of each open file description of the script file
    log       \* the text each call handed to the script file, in the order of the calls

vars ==
    <<out, prefix, runs, cmd, ovr, mark, sel, text, value, doc, fs, call,
      scores, offset, log>>

fnVars == <<out, prefix, runs, cmd, ovr, mark>>
selVars == <<sel, text>>
encVars == <<value, doc>>
packVars == <<fs, call>>
scoreVars == <<scores, offset, log>>

\* The Function::run calls made on one function in a run of the model.
MaxRuns == 2

\* The depth to which the number providers of the model nest; predicates nest
\* one level deeper.
MaxDepth == 1

None == [none |-> TRUE]
Some(v) == [some |-> v]
IsSome(o) == "some" \in DOMAIN o

\* The string a token sequence spells.
RECURSIVE Str(_)
Str(s) == IF s = <<>> THEN "" ELSE Head(s) \o Str(Tail(s))

\* The number of tokens of s equal to t.
RECURSIVE Count(_, _)
Count(s, t) ==
    IF s = <<>> THEN 0
    ELSE (IF Head(s) = t THEN 1 ELSE 0) + Count(Tail(s), t)

---------------------------------------------------------------------------
(* Catalogs (build.rs) and primitive Display.                              *)

\* mc_type: the variant named by the Pascal-case identifier displays as the
\* catalog line without its "minecraft:" prefix.
CatalogName(v) ==
    CASE v = "Dirt" -> "dirt"
      [] v = "Dispenser" -> "dispenser"
      [] v = "Stone" -> "stone"
      [] v = "DiamondBlock" -> "diamond_block"
      [] v = "Air" -> "air"
      [] v = "Regeneration" -> "regeneration"
      [] v = "Blindness" -> "blindness"
      [] v = "Absorption" -> "absorption"
      [] v = "Cow" -> "cow"
      [] v = "Sharpness" -> "sharpness"
      [] v = "Looting" -> "looting"
      [] v = "Mansion" -> "mansion"
      [] v = "Swiftness" -> "swiftness"

\* Display of u64 and i64.
IntFmt(n) == ToString(n)

\* Display of bool.
BoolFmt(b) == IF b THEN "true" ELSE "false"

\* Display of an f64 held in tenths: 50 is "5", 5 is "0.5", -30 is "-3".
F64Fmt(t) ==
    LET a == IF t < 0 THEN -t ELSE t
        sign == IF t < 0 THEN "-" ELSE ""
    IN  IF a % 10 = 0 THEN sign \o ToString(a \div 10)
        ELSE sign \o ToString(a \div 10) \o "." \o ToString(a % 10)

---------------------------------------------------------------------------
(* Selectors (core/mod.rs).                                                *)

SelectorTypes == {"S", "P", "E", "A", "R"}

SelectorTypeFmt(t) ==
    CASE t = "S" -> "s"
      [] t = "P" -> "p"
      [] t = "E" -> "e"
      [] t = "A" -> "a"
      [] t = "R" -> "r"

SelectorSortFmt(s) ==
    CASE s = "Nearest" -> "nearest"
      [] s = "Furthest" -> "furthest"
      [] s = "Arbritrary" -> "arbritrary"
      [] s = "Random" -> "random"

GameModeFmt(g) ==
    CASE g = "Creative" -> "creative"
      [] g = "Survival" -> "survival"
      [] g = "Spectator" -> "spectator"
      [] g = "Adventure" -> "adventure"

\* Selector::new: the kind, and every criterion at its Default, None.
SelectorNew(t) ==
    [sel |-> t, limit |-> None, sort |-> None, level |-> None,
     game_mode |-> None, name |-> None, x_rot |-> None, y_rot |-> None,
     ty |-> None, tag |-> None]

at_s == SelectorNew("S")
at_p == SelectorNew("P")
at_e == SelectorNew("E")
at_a == SelectorNew("A")
at_r == SelectorNew("R")

limit(s, n) == [s EXCEPT !.limit = Some(n)]
sort(s, v) == [s EXCEPT !.sort = Some(v)]
level(s, min, max) == [s EXCEPT !.level = Some(<<min, max>>)]
game_mode(s, mode, positive) == [s EXCEPT !.game_mode = Some(<<mode, positive>>)]
name(s, n, positive) == [s EXCEPT !.name = Some(<<n, positive>>)]
x_rot(s, min, max) == [s EXCEPT !.x_rot = Some(<<min, max>>)]
y_rotAsXRot(s, min, max) == [s EXCEPT !.x_rot = Some(<<min, max>>)]
y_rot(s, min, max) == [s EXCEPT !.y_rot = Some(<<min, max>>)]
entity(s, ty, positive) == [s EXCEPT !.ty = Some(<<ty, positive>>)]
tag(s, t, positive) == [s EXCEPT !.tag = Some(<<t, positive>>)]

\* A polarity written the same for both flags.
posPlain(positive) == <<>>

\* fn pos inside Selector::fmt
pos(positive) == IF positive THEN <<>> ELSE <<"!">>

\* `if let Some((min, max)) = self.<criterion> {write!(f, "<key>={}..{}", min, max)}`
RangeItem(key, o) ==
    IF IsSome(o)
    THEN <<key, "=", IntFmt(o.some[1]), "..", IntFmt(o.some[2])>>
    ELSE <<>>

\* A selector written with brackets whatever it holds, its limit, level and
\* tag between them.
SelectorFmtBracketed(s) ==
    <<"@", SelectorTypeFmt(s.sel), "[">>
    \o (IF IsSome(s.limit)
        THEN <<"limit", "=", IntFmt(s.limit.some)>> ELSE <<>>)
    \o RangeItem("level", s.level)
    \o (IF IsSome(s.tag)
        THEN <<"tag", "=">> \o pos(s.tag.some[2]) \o <<s.tag.some[1]>>
        ELSE <<>>)
    \o <<"]">>

\* impl Display for Selector
SelectorFmt(s) ==
    LET bare == (s = SelectorNew(s.sel))
        list_start == IF bare THEN <<>> ELSE <<"[">>
        list_end == IF bare THEN <<>> ELSE <<"]">>
    IN  <<"@", SelectorTypeFmt(s.sel)>> \o list_start
        \o (IF IsSome(s.limit)
            THEN <<"limit", "=", IntFmt(s.limit.some)>> ELSE <<>>)
        \o (IF IsSome(s.sort)
            THEN <<"sort", "=", SelectorSortFmt(s.sort.some)>> ELSE <<>>)
        \o RangeItem("level", s.level)
        \o (IF IsSome(s.game_mode)
            THEN <<"gamemode", "=">> \o pos(s.game_mode.some[2])
                 \o <<GameModeFmt(s.game_mode.some[1])>>
            ELSE <<>>)
        \o (IF IsSome(s.name)
            THEN <<"name", "=">> \o pos(s.name.some[2]) \o <<s.name.some[1]>>
            ELSE <<>>)
        \o RangeItem("x_rotation", s.x_rot)
        \o RangeItem("y_rotation", s.y_rot)
        \o (IF IsSome(s.ty)
            THEN <<"type", "=">> \o pos(s.ty.some[2])
                 \o <<CatalogName(s.ty.some[1])>>
            ELSE <<>>)
        \o (IF IsSome(s.tag)
            THEN <<"tag", "=">> \o pos(s.tag.some[2]) \o <<s.tag.some[1]>>
            ELSE <<>>)
        \o list_end

---------------------------------------------------------------------------
(* Coordinates (core/mod.rs).                                              *)

Absolute(x) == [kind |-> "Absolute", x |-> x]
Relative(x) == [kind |-> "Relative", x |-> x]
Mixed(x, y, z) == [kind |-> "Mixed", x |-> x, y |-> y, z |-> z]
Local(x, y, z) == [kind |-> "Local", lx |-> x, ly |-> y, lz |-> z]

\* The literal written for every value, 0.0 too.
zeroWritten(x) == <<F64Fmt(x)>>

\* fn zero: the literal, unless it is 0.0
zero(x) == IF x # 0 THEN <<F64Fmt(x)>> ELSE <<>>

\* impl Display for Coordinate
CoordinateFmt(c) ==
    IF c.kind = "Absolute" THEN <<F64Fmt(c.x)>> ELSE <<"~">> \o zero(c.x)

\* impl Display for Coordinates
CoordinatesFmt(c) ==
    IF c.kind = "Local"
    THEN <<"^">> \o zero(c.lx) \o <<" ", "^">> \o zero(c.ly) \o <<" ", "^">> \o zero(c.lz)
    ELSE CoordinateFmt(c.x) \o <<" ">> \o CoordinateFmt(c.y) \o <<" ">> \o CoordinateFmt(c.z)

---------------------------------------------------------------------------
(* Commands (datapack/function.rs).                                        *)

\* The constructor functions: the required fields, the others at the values
\* the constructor fills in.
Give(target, item) == [op |-> "Give", target |-> target, item |-> item, count |-> 1]
Clear == [op |-> "Clear", target |-> at_s, item |-> None]
Setblock(location, block) == [op |-> "Setblock", location |-> location, block |-> block]
Kill == [op |-> "Kill", target |-> at_s]
EffectGive(target, effect) ==
    [op |-> "EffectGive", target |-> target, effect |-> effect,
     seconds |-> 30, amplifier |-> 1, hide_particles |-> FALSE]
EffectClear == [op |-> "EffectClear", target |-> at_s, effect |-> None]

\* impl Command for Give
GiveOutput(c) ==
    <<"give", " ">> \o SelectorFmt(c.target) \o <<" ", CatalogName(c.item)>>
    \o (IF c.count # 1 THEN <<" ", IntFmt(c.count)>> ELSE <<>>)
    \o <<"\n">>

\* impl Command for Clear
ClearOutput(c) ==
    <<"clear">>
    \o (IF c.target # at_s
        THEN <<" ">> \o SelectorFmt(c.target)
             \o (IF IsSome(c.item)
                 THEN <<" ", CatalogName(c.item.some[1])>>
                      \o (IF IsSome(c.item.some[2])
                          THEN <<" ", IntFmt(c.item.some[2].some)>> ELSE <<>>)
                 ELSE <<>>)
        ELSE <<>>)

\* impl Command for Setblock
SetblockOutput(c) ==
    <<"setblock", " ">> \o CoordinatesFmt(c.location) \o <<" ", CatalogName(c.block)>>

\* impl Command for Kill
KillOutput(c) ==
    <<"kill">> \o (IF c.target # at_s THEN <<" ">> \o SelectorFmt(c.target) ELSE <<>>)

\* Variation with the amplifier tested against 1, the constructor's value.
VariationAmplifierOne(c) ==
    LET v1 == IF c.seconds # 30 THEN 1 ELSE 0
        v2 == IF c.amplifier # 1 THEN 2 ELSE v1
    IN  IF c.hide_particles THEN 3 ELSE v2

\* EffectGive::output: the variation index
Variation(c) ==
    LET v1 == IF c.seconds # 30 THEN 1 ELSE 0
        v2 == IF c.amplifier # 0 THEN 2 ELSE v1
    IN  IF c.hide_particles THEN 3 ELSE v2

\* impl Command for EffectGive
EffectGiveOutput(c) ==
    LET variation == Variation(c)
    IN  <<"effect give", " ">> \o SelectorFmt(c.target) \o <<" ", CatalogName(c.effect)>>
        \o (IF variation >= 1 THEN <<" ", IntFmt(c.seconds)>> ELSE <<>>)
        \o (IF variation >= 2 THEN <<" ", IntFmt(c.amplifier)>> ELSE <<>>)
        \o (IF variation >= 3 THEN <<" ", BoolFmt(c.hide_particles)>> ELSE <<>>)

\* EffectClear with the target printed only when it is not at_s().
EffectClearTargetWhenChanged(c) ==
    <<"effect clear">>
    \o (IF c.target # at_s THEN <<" ">> \o SelectorFmt(c.target) ELSE <<>>)
    \o (IF IsSome(c.effect) THEN <<" ", CatalogName(c.effect.some)>> ELSE <<>>)

\* impl Command for EffectClear
EffectClearOutput(c) ==
    <<"effect clear">>
    \o (IF c.target # at_s \/ IsSome(c.effect)
        THEN <<" ">> \o SelectorFmt(c.target) ELSE <<>>)
    \o (IF IsSome(c.effect) THEN <<" ", CatalogName(c.effect.some)>> ELSE <<>>)

\* Command::output, by command type.
Output(c) ==
    CASE c.op = "Give" -> GiveOutput(c)
      [] c.op = "Clear" -> ClearOutput(c)
      [] c.op = "Setblock" -> SetblockOutput(c)
      [] c.op = "Kill" -> KillOutput(c)
      [] c.op = "EffectGive" -> EffectGiveOutput(c)
      [] c.op = "EffectClear" -> EffectClearOutput(c)

\* Function::run: what one call appends to the file.
RunWrites(p, c) ==
    p \o (IF p = <<>> THEN <<>> ELSE <<" run ">>) \o Output(c) \o <<"\n">>

\* The inputs of the model's run calls.
GiveTargets == {at_a, tag(at_s, "foo", TRUE)}
Items == {"Dirt", "Dispenser"}
ClearTargets == {game_mode(at_a, "Survival", TRUE)}
ClearItems == {<<"Stone", None>>, <<"Stone", Some(3)>>}
Locations ==
    {Mixed(Relative(0), Relative(0), Relative(0)), Local(0, 0, 50),
     Mixed(Absolute(30), Relative(5), Absolute(0)), Local(10, 0, -25),
     Mixed(Absolute(0), Relative(-10), Relative(0))}
Blocks == {"DiamondBlock", "Air"}
KillTargets == {level(at_a, 3, 5), at_s, tag(at_s, "foo", TRUE)}
EffectTargets == {<<at_s, "Regeneration">>, <<at_a, "Blindness">>}
SecondsGiven == {1000000}
AmplifiersGiven == {0, 255}
EffectsCleared == {"Blindness"}
ClearedTargets == {at_a, at_s, tag(at_s, "foo", TRUE)}

\* The ways to give an optional field in a struct update: not at all, or
\* one of the values of S.
Opt(S) == {None} \cup {Some(v) : v \in S}

\* Struct update syntax: field f of base replaced by the value given, if any.
With(base, f, o) == IF IsSome(o) THEN [base EXCEPT ![f] = o.some] ELSE base
Given(f, o) == IF IsSome(o) THEN {f} ELSE {}

\* A write through a file description at position pos: the tokens replace
\* what the file holds from pos on, and extend it past its end.
WriteAt(file, p, tokens) ==
    SubSeq(file, 1, p) \o tokens \o SubSeq(file, p + Len(tokens) + 1, Len(file))

\* The model makes at most MaxRuns calls of Function::run on the function.
CanRun == runs < MaxRuns

\* Function::run(c), the fields given of c coming from a struct update.
FunctionRun(c, given) ==
    /\ cmd' = c
    /\ ovr' = given
    /\ mark' = offset[1]
    /\ out' = WriteAt(out, offset[1], RunWrites(prefix, c))
    /\ offset' = [offset EXCEPT ![1] = @ + Len(RunWrites(prefix, c))]
    /\ log' = Append(log, RunWrites(prefix, c))
    /\ runs' = runs + 1
    /\ UNCHANGED <<prefix, scores, selVars, encVars, packVars>>

RunGive ==
    /\ CanRun
    /\ \E t \in GiveTargets, i \in Items, n \in Opt({50}) :
        FunctionRun(With(Give(t, i), "count", n), Given("count", n))

RunClear ==
    /\ CanRun
    /\ \E t \in Opt(ClearTargets), i \in Opt({Some(x) : x \in ClearItems}) :
        FunctionRun(With(With(Clear, "target", t), "item", i),
                    Given("target", t) \cup Given("item", i))

RunSetblock ==
    /\ CanRun
    /\ \E l \in Locations, b \in Blocks : FunctionRun(Setblock(l, b), {})

RunKill ==
    /\ CanRun
    /\ \E t \in Opt(KillTargets) : FunctionRun(With(Kill, "target", t), Given("target", t))

RunEffectGive ==
    /\ CanRun
    /\ \E te \in EffectTargets, s \in Opt(SecondsGiven), a \in Opt(AmplifiersGiven),
          h \in Opt({TRUE}) :
        FunctionRun(
            With(With(With(EffectGive(te[1], te[2]), "seconds", s), "amplifier", a),
                 "hide_particles", h),
            Given("seconds", s) \cup Given("amplifier", a) \cup Given("hide_particles", h))

RunEffectClear ==
    /\ CanRun
    /\ \E t \in Opt(ClearedTargets), e \in Opt({Some(x) : x \in EffectsCleared}) :
        FunctionRun(With(With(EffectClear, "target", t), "effect", e),
                    Given("target", t) \cup Given("effect", e))

\* Function::new: an empty file and an empty prefix; no command run yet.
NoCommand == [op |-> "None"]

FunctionNew ==
    /\ out = <<>>
    /\ prefix = <<>>
    /\ runs = 0
    /\ cmd = NoCommand
    /\ ovr = {}
    /\ mark = 0
    /\ offset = <<0>>
    /\ log = <<>>
    /\ scores = <<>>

SelIdle == sel = at_s /\ text = <<>>
EncIdle == value = [kind |-> "None"] /\ doc = None

\* Nothing on disk and no call made on a datapack.
PackIdle == fs = [dirs |-> {}, files |-> {}, written |-> {}] /\ call = [op |-> "None"]

Init == FunctionNew /\ SelIdle /\ EncIdle /\ PackIdle

Next ==
    \/ RunGive
    \/ RunClear
    \/ RunSetblock
    \/ RunKill
    \/ RunEffectGive
    \/ RunEffectClear

Spec == Init /\ [][Next]_vars

---------------------------------------------------------------------------
(* Building and rendering a selector (core/mod.rs).                        *)

Limits == {1}
Sorts == {"Nearest"}
Levels == {<<3, 5>>}
GameModes == {<<"Creative", TRUE>>, <<"Spectator", FALSE>>}
Names == {<<"bob", TRUE>>, <<"bob", FALSE>>}
Rotations == {<<0, 90>>}
Entities == {<<"Cow", TRUE>>, <<"Cow", FALSE>>}
Tags == {<<"foo", TRUE>>, <<"foo", FALSE>>}

\* The at_ functions: a bare selector of one of the five kinds, not rendered.
SelNew == sel \in {SelectorNew(t) : t \in SelectorTypes} /\ text = <<>>

\* A setter returns the selector with its criterion set; what Display wrote
\* for the selector before is not the text of the new one.
SetLimit ==
    \E n \in Limits :
        sel' = limit(sel, n) /\ text' = <<>> /\ UNCHANGED <<fnVars, encVars, packVars, scoreVars>>

SetSort ==
    \E v \in Sorts :
        sel' = sort(sel, v) /\ text' = <<>> /\ UNCHANGED <<fnVars, encVars, packVars, scoreVars>>

SetLevel ==
    \E r \in Levels :
        sel' = level(sel, r[1], r[2]) /\ text' = <<>> /\ UNCHANGED <<fnVars, encVars, packVars, scoreVars>>

SetGameMode ==
    \E g \in GameModes :
        sel' = game_mode(sel, g[1], g[2]) /\ text' = <<>> /\ UNCHANGED <<fnVars, encVars, packVars, scoreVars>>

SetSelectorName ==
    \E n \in Names :
        sel' = name(sel, n[1], n[2]) /\ text' = <<>> /\ UNCHANGED <<fnVars, encVars, packVars, scoreVars>>

SetXRot ==
    \E r \in Rotations :
        sel' = x_rot(sel, r[1], r[2]) /\ text' = <<>> /\ UNCHANGED <<fnVars, encVars, packVars, scoreVars>>

SetYRot ==
    \E r \in Rotations :
        sel' = y_rot(sel, r[1], r[2]) /\ text' = <<>> /\ UNCHANGED <<fnVars, encVars, packVars, scoreVars>>

SetEntity ==
    \E e \in Entities :
        sel' = entity(sel, e[1], e[2]) /\ text' = <<>> /\ UNCHANGED <<fnVars, encVars, packVars, scoreVars>>

SetTag ==
    \E t \in Tags :
        sel' = tag(sel, t[1], t[2]) /\ text' = <<>> /\ UNCHANGED <<fnVars, encVars, packVars, scoreVars>>

\* Display::fmt on the selector built so far.
Display ==
    /\ text' = SelectorFmt(sel)
    /\ UNCHANGED <<sel, fnVars, encVars, packVars, scoreVars>>

SelInit == FunctionNew /\ SelNew /\ EncIdle /\ PackIdle

SelNext ==
    \/ SetLimit
    \/ SetSort
    \/ SetLevel
    \/ SetGameMode
    \/ SetSelectorName
    \/ SetXRot
    \/ SetYRot
    \/ SetEntity
    \/ SetTag
    \/ Display

SpecSelector == SelInit /\ [][SelNext]_vars

\* What the last Function::run call wrote, without the line terminator that
\* run itself appends.
LastOutput == SubSeq(out, mark + 1, Len(out) - 1)

---------------------------------------------------------------------------
(* JSON documents: what serde_json writes for the serializer calls made.   *)

JInt(n) == [jint |-> n]
JFloat(t) == [jfloat |-> t]
JStr(s) == [jstr |-> s]
JBool(b) == [jbool |-> b]
JArr(xs) == [jarr |-> xs]
JNull == [jnull |-> TRUE]
\* A map or struct: its entries <<key, value>> in the order they were written.
JObj(es) == [jobj |-> es]
\* The serialization stopped: a panic, or an Err of the serializer.
JFail(why) == [jfail |-> why]

\* serde_json's text of an f64 held in tenths: 5 is 0.5, 10 is 1.0.
JsonF64(t) ==
    LET a == IF t < 0 THEN -t ELSE t
    IN  (IF t < 0 THEN "-" ELSE "") \o ToString(a \div 10) \o "." \o ToString(a % 10)

\* serde_json::to_writer: the compact text of a document.
RECURSIVE JsonText(_)
RECURSIVE JsonItems(_)
RECURSIVE JsonEntries(_)
JsonItems(xs) ==
    IF xs = <<>> THEN ""
    ELSE JsonText(Head(xs)) \o (IF Len(xs) > 1 THEN "," ELSE "") \o JsonItems(Tail(xs))
JsonEntries(es) ==
    IF es = <<>> THEN ""
    ELSE "\"" \o Head(es)[1] \o "\":" \o JsonText(Head(es)[2])
         \o (IF Len(es) > 1 THEN "," ELSE "") \o JsonEntries(Tail(es))
JsonText(j) ==
    CASE "jnull" \in DOMAIN j -> "null"
      [] "jint" \in DOMAIN j -> ToString(j.jint)
      [] "jfloat" \in DOMAIN j -> JsonF64(j.jfloat)
      [] "jstr" \in DOMAIN j -> "\"" \o j.jstr \o "\""
      [] "jbool" \in DOMAIN j -> (IF j.jbool THEN "true" ELSE "false")
      [] "jarr" \in DOMAIN j -> "[" \o JsonItems(j.jarr) \o "]"
      [] "jobj" \in DOMAIN j -> "{" \o JsonEntries(j.jobj) \o "}"

---------------------------------------------------------------------------
(* Values handed to the serializer.  Every value carries its Rust type:    *)
(* scalars as [i64 |-> n], [f64 |-> tenths], [str |-> s], [bool |-> b],    *)
(* a unit variant of an enum as [unit |-> "Variant"], a slice as           *)
(* [slice |-> <<..>>], a tuple as [tuple |-> <<..>>].                       *)

I64(n) == [i64 |-> n]
F64(t) == [f64 |-> t]
StrV(s) == [str |-> s]
BoolV(b) == [bool |-> b]
Unit(v) == [unit |-> v]
Slice(xs) == [slice |-> xs]
Tuple(xs) == [tuple |-> xs]

\* #[serde(rename_all = "snake_case")]: the name of a variant.
SnakeCase(v) ==
    CASE v = "This" -> "this"
      [] v = "Killer" -> "killer"
      [] v = "DirectKiller" -> "direct_killer"
      [] v = "PlayerKiller" -> "player_killer"
      [] v = "KillerPlayer" -> "killer_player"
      [] v = "BlockEntity" -> "block_entity"
      [] v = "Storage" -> "storage"
      [] v = "Context" -> "context"
      [] v = "Replace" -> "replace"
      [] v = "Append" -> "append"
      [] v = "Merge" -> "merge"
      [] v = "Addition" -> "addition"
      [] v = "MultiplyBase" -> "multiply_base"
      [] v = "MultiplyTotal" -> "multiply_total"
      [] v = "Mainhand" -> "mainhand"
      [] v = "Offhand" -> "offhand"
      [] v = "Red" -> "red"
      [] v = "LightBlue" -> "light_blue"
      [] v = "Alternative" -> "alternative"
      [] v = "BlockStateProperty" -> "block_state_property"
      [] v = "DamageSourceProperties" -> "damage_source_properties"
      [] v = "EntityProperties" -> "entity_properties"
      [] v = "EntityScores" -> "entity_scores"
      [] v = "Inverted" -> "inverted"
      [] v = "KilledByPlayer" -> "killed_by_player"
      [] v = "LocationCheck" -> "location_check"
      [] v = "MatchTool" -> "match_tool"
      [] v = "RandomChance" -> "random_chance"
      [] v = "RandomChanceWithLooting" -> "random_chance_with_looting"
      [] v = "Reference" -> "reference"
      [] v = "SurvivesExplosion" -> "survives_explosion"
      [] v = "TableBonus" -> "table_bonus"
      [] v = "TimeCheck" -> "time_check"
      [] v = "WeatherCheck" -> "weather_check"
      [] v = "ValueCheck" -> "value_check"
      [] v = "ApplyBonus" -> "apply_bonus"
      [] v = "CopyName" -> "copy_name"
      [] v = "CopyNbt" -> "copy_nbt"
      [] v = "CopyState" -> "copy_state"
      [] v = "EnchantRandomly" -> "enchant_randomly"
      [] v = "EnchantWithLevels" -> "enchant_with_levels"
      [] v = "ExplorationMap" -> "exploration_map"
      [] v = "ExplosionDecay" -> "explosion_decay"
      [] v = "FurnaceSmelt" -> "furnace_smelt"
      [] v = "FillPlayerHead" -> "fill_player_head"
      [] v = "LimitCountExact" -> "limit_count_exact"
      [] v = "LimitCountRange" -> "limit_count_range"
      [] v = "LootingEnchant" -> "looting_enchant"
      [] v = "SetAttributes" -> "set_attributes"
      [] v = "SetBannerPattern" -> "set_banner_pattern"
      [] v = "SetContents" -> "set_contents"
      [] v = "SetCount" -> "set_count"
      [] v = "SetDamage" -> "set_damage"
      [] v = "SetEnchantments" -> "set_enchantments"
      [] v = "SetLootTable" -> "set_loot_table"
      [] v = "SetLore" -> "set_lore"
      [] v = "SetName" -> "set_name"
      [] v = "SetNbt" -> "set_nbt"
      [] v = "SetStewEffect" -> "set_stew_effect"
      [] OTHER -> CatalogName(v)

\* Identifier::new(namespace, parts), parts not empty.
IdentifierNew(namespace, parts) ==
    [namespace |-> namespace,
     folders |-> SubSeq(parts, 1, Len(parts) - 1),
     id |-> parts[Len(parts)]]

\* impl Serialize for Identifier: `for folder in self.folders {write!(out, "{}/", folder)}`
RECURSIVE FoldersText(_)
FoldersText(folders) ==
    IF folders = <<>> THEN "" ELSE Head(folders) \o "/" \o FoldersText(Tail(folders))

\* impl Serialize for Identifier
SerializeIdentifier(id) == JStr(id.namespace \o FoldersText(id.folders) \o id.id)

\* ScoreTarget
Fixed(n) == [ScoreTarget |-> "Fixed", f0 |-> StrV(n)]
Context(e) == [ScoreTarget |-> "Context", f0 |-> Unit(e)]

\* NumberProvider<N>: the N of Constant is an i64, an f64 or, Number being
\* implemented for NumberProvider, a number provider.
Constant(n) == [NumberProvider |-> "Constant", f0 |-> n]
Uniform(min, max) == [NumberProvider |-> "Uniform", min |-> min, max |-> max]
Binomial(n, p) == [NumberProvider |-> "Binomial", n |-> n, p |-> p]
Score(target, score, scale) ==
    [NumberProvider |-> "Score", target |-> target, score |-> StrV(score),
     scale |-> F64(scale)]

RECURSIVE Serialize(_)

\* impl Serialize for ScoreTarget
SerializeScoreTarget(t) ==
    IF t.ScoreTarget = "Context" THEN Serialize(t.f0)
    ELSE JObj(<< <<"type", JStr("fixed")>>, <<"name", Serialize(t.f0)>> >>)

\* A constant written as an object of type "constant".
ConstantAsObject(n) == JObj(<< <<"type", JStr("constant")>>, <<"value", Serialize(n)>> >>)

\* NumberProvider::serialize, `if let Constant(n) = self {n.serialize(serializer)}`
SerializeConstant(n) == Serialize(n)

\* The Uniform arm without its "type" entry.
UniformEntriesUntyped(np) ==
    << <<"min", Serialize(np.min)>>, <<"max", Serialize(np.max)>> >>

\* NumberProvider::serialize, the Uniform arm
UniformEntries(np) ==
    << <<"type", JStr("uniform")>>,
       <<"min", Serialize(np.min)>>,
       <<"max", Serialize(np.max)>> >>

\* NumberProvider::serialize, the Binomial arm
BinomialEntries(np) ==
    << <<"type", JStr("binomial")>>,
       <<"n", Serialize(np.n)>>,
       <<"p", Serialize(np.p)>> >>

\* The Score arm with the scale written for every scale.
ScoreEntriesScaled(np) ==
    << <<"type", JStr("score")>>,
       <<"target", Serialize(np.target)>>,
       <<"score", Serialize(np.score)>>,
       <<"scale", Serialize(np.scale)>> >>

\* NumberProvider::serialize, the Score arm
ScoreEntries(np) ==
    << <<"type", JStr("score")>>,
       <<"target", Serialize(np.target)>>,
       <<"score", Serialize(np.score)>> >>
    \o (IF np.scale # F64(10) THEN << <<"scale", Serialize(np.scale)>> >> ELSE <<>>)

\* NumberProvider::serialize going to the match for every variant.
SerializeNumberProviderMatched(np) ==
    CASE np.NumberProvider = "Uniform" -> JObj(UniformEntries(np))
      [] np.NumberProvider = "Binomial" -> JObj(BinomialEntries(np))
      [] np.NumberProvider = "Score" -> JObj(ScoreEntries(np))
      [] np.NumberProvider = "Constant" ->
            JFail("internal error: entered unreachable code")

\* impl Serialize for NumberProvider
SerializeNumberProvider(np) ==
    IF np.NumberProvider = "Constant" THEN SerializeConstant(np.f0)
    ELSE CASE np.NumberProvider = "Uniform" -> JObj(UniformEntries(np))
           [] np.NumberProvider = "Binomial" -> JObj(BinomialEntries(np))
           [] np.NumberProvider = "Score" -> JObj(ScoreEntries(np))
           [] np.NumberProvider = "Constant" ->
                 JFail("internal error: entered unreachable code")

\* #[serde(skip_serializing_if = "...")] on a field holding x.
Skipped(x, skip) ==
    \/ skip = "Option::is_none" /\ x = None
    \/ skip = "Not::not" /\ x = BoolV(FALSE)

\* A field of a struct or of a struct variant, as
\* <<field, skip_serializing_if, external name, serialize_with>>:
\* one always written, one written unless None, one written unless false.
Field(f) == <<f, "never", f, "Serialize::serialize">>
\* An Option field written for both of its cases.
OptionFieldKept(f) == <<f, "never", f, "Serialize::serialize">>
OptionField(f) == <<f, "Option::is_none", f, "Serialize::serialize">>
\* A bool field written for both of its values.
FlagFieldKept(f) == <<f, "never", f, "Serialize::serialize">>
FlagField(f) == <<f, "Not::not", f, "Serialize::serialize">>

\* core::serialize_tuple_map and core::TupleMapSerializer, which predicate.rs
\* imports and whose definitions lie outside the sources modelled; taken as
\* documented: a list of (key, value) pairs written as one JSON object keyed
\* by the string of each key, an entry per pair in list order.
RECURSIVE TupleMapSerializer(_)
TupleMapSerializer(pairs) ==
    IF pairs = <<>> THEN <<>>
    ELSE << <<Serialize(Head(pairs).tuple[1]).jstr, Serialize(Head(pairs).tuple[2])>> >>
         \o TupleMapSerializer(Tail(pairs))

serialize_tuple_map(o) == JObj(TupleMapSerializer(o.some.slice))

\* serialize_advancements: an entry per (name, predicate), Complete as its
\* bool and Criteria as a map of its pairs.
RECURSIVE AdvancementEntries(_)
AdvancementEntries(pairs) ==
    IF pairs = <<>> THEN <<>>
    ELSE LET n == Serialize(Head(pairs).tuple[1]).jstr
             pred == Head(pairs).tuple[2]
         IN  << <<n, IF pred.AdvancementPredicate = "Complete" THEN Serialize(pred.f0)
                     ELSE JObj(TupleMapSerializer(pred.f0.slice))>> >>
             \o AdvancementEntries(Tail(pairs))

\* Every entry written as the plain serialization of its predicate's payload.
serialize_payloads(o) ==
    JObj([i \in 1..Len(o.some.slice) |->
            <<Serialize(o.some.slice[i].tuple[1]).jstr,
              Serialize(o.some.slice[i].tuple[2].f0)>>])

serialize_advancements(o) ==
    IF o = None THEN JFail("called Option::unwrap() on a None value")
    ELSE JObj(AdvancementEntries(o.some.slice))

\* #[derive(Serialize)] on a struct or a struct variant: one entry per field
\* that is not skipped, in declared order.
RECURSIVE DeriveEntries(_, _)
DeriveEntries(v, fields) ==
    IF fields = <<>> THEN <<>>
    ELSE LET f == Head(fields)
             x == v[f[1]]
         IN  (IF Skipped(x, f[2]) THEN <<>>
              ELSE << <<f[3], CASE f[4] = "serialize_tuple_map" -> serialize_tuple_map(x)
                                [] f[4] = "serialize_advancements" -> serialize_advancements(x)
                                [] OTHER -> Serialize(x)>> >>)
             \o DeriveEntries(v, Tail(fields))

\* impl Serialize for ApplyBonusFormula
SerializeApplyBonusFormula(f) ==
    JObj(CASE f.ApplyBonusFormula = "BinomialWithBonusCount" ->
                << <<"extra", Serialize(f.extra)>>,
                   <<"probability", Serialize(f.probability)>> >>
           [] f.ApplyBonusFormula = "UniformBonusCount" ->
                << <<"bonusMultiplier", Serialize(f.bonus_multiplier)>> >>
           [] f.ApplyBonusFormula = "OreDrops" -> <<>>)

\* serialize_apply_bonus: the entries it writes to the map
serialize_apply_bonus(enchantment, formula) ==
    << <<"enchantment", Serialize(enchantment)>>,
       <<"formula", JStr(CASE formula.ApplyBonusFormula = "BinomialWithBonusCount" ->
                                "binomial_with_bonus_count"
                           [] formula.ApplyBonusFormula = "UniformBonusCount" ->
                                "uniform_bonus_count"
                           [] formula.ApplyBonusFormula = "OreDrops" -> "ore_drops")>>,
       <<"parameters", Serialize(formula)>> >>

\* serialize_copy_name: the entries it writes to the map
serialize_copy_name == << <<"source", JStr("block_entity")>> >>

\* #[derive(Serialize)] on CopyNbtSource: an externally tagged struct variant
SerializeCopyNbtSource(src) ==
    JObj(<< <<SnakeCase(src.CopyNbtSource),
              JObj(DeriveEntries(src, IF src.CopyNbtSource = "Storage"
                                      THEN <<Field("source")>>
                                      ELSE <<Field("target")>>))>> >>)

\* #[derive(Serialize)] #[serde(untagged)] on OptionalRange and on
\* BlockstateValue: the payload of the variant, nothing around it.
SerializeUntagged(v) == Serialize(v.f0)

\* The fields of config_struct!: each an Option skipped when None, some
\* renamed, some with a serializer of their own.
Renamed(f, external) == <<f, "Option::is_none", external, "Serialize::serialize">>
ConfigFieldWith(f, with) == <<f, "Option::is_none", f, with>>

\* The fields of the structs that derive Serialize, in declared order.
StructFields(s) ==
    CASE s = "CopyNbtOperation" -> <<Field("source"), Field("target"), Field("op")>>
      [] s = "Range" -> <<Field("min"), Field("max")>>
      [] s = "AttributeModifier" ->
            <<Field("name"), Field("attribute"), Field("operation"), Field("amount"),
              OptionField("id"), Field("slot")>>
      [] s = "BannerPattern" -> <<Field("pattern"), Field("color")>>
      [] s = "StatusEffect" -> <<Field("ty"), Field("duration")>>
      [] s = "StatisticPredicate" ->
            <<<<"ty", "never", "type", "Serialize::serialize">>, Field("stat"),
              Field("value")>>
      [] s = "EnchantmentPredicate" -> <<Field("enchantment"), Field("levels")>>
      [] s = "DamagePredicate" ->
            <<OptionField("bypasses_armor"), OptionField("bypasses_invulnerability"),
              OptionField("bypasses_magic"), OptionField("is_explosion"),
              OptionField("is_fire"), OptionField("is_magic"),
              OptionField("is_projectile"), OptionField("is_lightning"),
              OptionField("direct_entity"), OptionField("source_entity")>>
      [] s = "DistancePredicate" ->
            <<OptionField("absolute"), OptionField("horizontal"), OptionField("x"),
              OptionField("y"), OptionField("z")>>
      [] s = "EffectPredicate" ->
            <<OptionField("ambient"), OptionField("amplifier"), OptionField("duration"),
              OptionField("visible")>>
      [] s = "EquipmentPredicate" ->
            <<OptionField("mainhand"), OptionField("offhand"), OptionField("head"),
              OptionField("chest"), OptionField("legs"), OptionField("feet")>>
      [] s = "EntityFlags" ->
            <<OptionField("is_on_fire"), OptionField("is_sneaking"),
              OptionField("is_sprinting"), OptionField("is_swimming"),
              OptionField("is_baby")>>
      [] s = "PlayerPredicate" ->
            <<ConfigFieldWith("advancements", "serialize_advancements"),
              OptionField("gamemode"), OptionField("level"),
              ConfigFieldWith("recipes", "serialize_tuple_map"), OptionField("stats")>>
      [] s = "EntityPredicate" ->
            <<OptionField("distance"), ConfigFieldWith("effects", "serialize_tuple_map"),
              OptionField("equipment"), OptionField("flags"), OptionField("location"),
              OptionField("nbt"), OptionField("player"), OptionField("team"),
              Renamed("ty", "type"), OptionField("targeted_entity"),
              OptionField("vehicle")>>
      [] s = "ItemPredicate" ->
            <<OptionField("count"), OptionField("durability"),
              OptionField("enchantments"), OptionField("stored_enchantments"),
              OptionField("item"), OptionField("nbt"), OptionField("potion"),
              OptionField("tag")>>
      [] s = "BlockPredicate" ->
            <<OptionField("block"), OptionField("tag"), OptionField("nbt"),
              ConfigFieldWith("state", "serialize_tuple_map")>>
      [] s = "FluidPredicate" ->
            <<OptionField("fluid"), OptionField("tag"),
              ConfigFieldWith("state", "serialize_tuple_map")>>
      [] s = "PositionPredicate" -> <<OptionField("x"), OptionField("y"), OptionField("z")>>
      [] s = "LocationPredicate" ->
            <<OptionField("biome"), OptionField("block"), OptionField("dimension"),
              OptionField("feature"), OptionField("fluid"), OptionField("light"),
              OptionField("position"), OptionField("smokey")>>

\* #[derive(Default)] on a struct of config_struct!: every field None.
Default(s) ==
    LET fields == StructFields(s)
    IN  [k \in {"struct"} \cup {fields[i][1] : i \in 1..Len(fields)} |->
            IF k = "struct" THEN s ELSE None]

\* #[derive(Serialize)] on a struct
SerializeStruct(v) == JObj(DeriveEntries(v, StructFields(v.struct)))

\* serialize_set_enchantments: KeyEnchantments, one entry per pair
RECURSIVE KeyEnchantments(_)
KeyEnchantments(pairs) ==
    IF pairs = <<>> THEN <<>>
    ELSE << <<Serialize(Head(pairs).tuple[1]).jstr, Serialize(Head(pairs).tuple[2])>> >>
         \o KeyEnchantments(Tail(pairs))

\* serialize_set_enchantments: the entries it writes to the map
serialize_set_enchantments(enchantments, add) ==
    << <<"enchantments", JObj(KeyEnchantments(enchantments.slice))>> >>
    \o (IF add = BoolV(TRUE) THEN << <<"add", Serialize(add)>> >> ELSE <<>>)

\* The name a variant of ItemModifier is written under: the enum has no
\* rename_all, and two variants have #[serde(rename = "limit_count")].
ItemModifierVariantName(v) ==
    IF v \in {"LimitCountExact", "LimitCountRange"} THEN "limit_count" ELSE v

\* The fields of the variants of ItemModifier that derive their encoding.
ItemModifierFields(v) ==
    CASE v = "CopyNbt" -> <<Field("source"), Field("ops")>>
      [] v = "CopyState" -> <<Field("block"), Field("properties")>>
      [] v = "EnchantRandomly" -> <<OptionField("enchantments")>>
      [] v = "EnchantWithLevels" -> <<Field("treasure"), Field("levels")>>
      [] v = "ExplorationMap" ->
            <<Field("destination"), Field("decoration"), Field("zoom"),
              Field("search_radius"), Field("skip_existing_chunks")>>
      [] v = "ExplosionDecay" -> <<>>
      [] v = "FurnaceSmelt" -> <<>>
      [] v = "FillPlayerHead" -> <<Field("entity")>>
      [] v = "LimitCountExact" -> <<Field("limit")>>
      [] v = "LimitCountRange" -> <<Field("limit")>>
      [] v = "LootingEnchant" -> <<Field("count"), Field("limit")>>
      [] v = "SetAttributes" -> <<Field("modifiers")>>
      [] v = "SetBannerPattern" -> <<FlagField("append"), Field("patterns")>>
      [] v = "SetContents" -> <<Field("entries")>>
      [] v = "SetCount" -> <<Field("count"), FlagField("add")>>
      [] v = "SetDamage" -> <<Field("damage"), FlagField("add")>>
      [] v = "SetLootTable" -> <<Field("name"), OptionField("seed")>>
      [] v = "SetLore" -> <<Field("lore"), Field("entity"), FlagField("replace")>>
      [] v = "SetName" -> <<Field("name"), Field("entity")>>
      [] v = "SetNbt" -> <<Field("tag")>>
      [] v = "SetStewEffect" -> <<Field("effects")>>

\* #[derive(Serialize)] #[serde(tag = "function")] on ItemModifier: the tag is
\* written first, the entries of the variant after it.
SerializeItemModifier(m) ==
    JObj(<< <<"function", JStr(ItemModifierVariantName(m.ItemModifier))>> >>
         \o CASE m.ItemModifier = "ApplyBonus" ->
                    serialize_apply_bonus(m.enchantment, m.formula)
              [] m.ItemModifier = "CopyName" -> serialize_copy_name
              [] m.ItemModifier = "SetEnchantments" ->
                    serialize_set_enchantments(m.enchantments, m.add)
              [] OTHER -> DeriveEntries(m, ItemModifierFields(m.ItemModifier)))

\* The name of a variant written as it is declared.
PredicateVariantNameAsDeclared(v) == v

\* The name a variant of Predicate is written under: rename_all = "snake_case".
PredicateVariantName(v) == SnakeCase(v)

\* The fields of the variants of Predicate, in declared order.
PredicateFields(v) ==
    CASE v = "Alternative" -> <<Field("terms")>>
      [] v = "BlockStateProperty" ->
            <<Field("block"),
              <<"properties", "Option::is_none", "properties", "serialize_tuple_map">>>>
      [] v = "DamageSourceProperties" -> <<Field("predicate")>>
      [] v = "EntityProperties" -> <<Field("entity"), Field("predicate")>>
      [] v = "EntityScores" -> <<Field("entity"), Field("scores")>>
      [] v = "Inverted" -> <<Field("term")>>
      [] v = "KilledByPlayer" -> <<FlagField("inverse")>>
      [] v = "LocationCheck" ->
            <<Renamed("offset_x", "offsetX"), Renamed("offset_y", "offsetY"),
              Renamed("offset_z", "offsetZ"), Field("predicate")>>
      [] v = "MatchTool" -> <<Field("predicate")>>
      [] v = "RandomChance" -> <<Field("chance")>>
      [] v = "RandomChanceWithLooting" -> <<Field("chance"), Field("looting_multiplier")>>
      [] v = "Reference" -> <<Field("name")>>
      [] v = "SurvivesExplosion" -> <<>>
      [] v = "TableBonus" -> <<Field("enchantment"), Field("chances")>>
      [] v = "TimeCheck" -> <<Field("value"), OptionField("period")>>
      [] v = "WeatherCheck" -> <<OptionField("raining"), OptionField("thundering")>>
      [] v = "ValueCheck" -> <<Field("value"), Field("range")>>

\* #[derive(Serialize)] #[serde(tag = "condition", rename_all = "snake_case")]
\* on Predicate: the tag is written first, the fields of the variant after it.
SerializePredicate(p) ==
    JObj(<< <<"condition", JStr(PredicateVariantName(p.Predicate))>> >>
         \o DeriveEntries(p, PredicateFields(p.Predicate)))

\* Serialize::serialize, by the type of the value.
Serialize(v) ==
    CASE "i64" \in DOMAIN v -> JInt(v.i64)
      [] "f64" \in DOMAIN v -> JFloat(v.f64)
      [] "str" \in DOMAIN v -> JStr(v.str)
      [] "bool" \in DOMAIN v -> JBool(v.bool)
      [] "unit" \in DOMAIN v -> JStr(SnakeCase(v.unit))
      [] "slice" \in DOMAIN v -> JArr([i \in 1..Len(v.slice) |-> Serialize(v.slice[i])])
      [] "tuple" \in DOMAIN v -> JArr([i \in 1..Len(v.tuple) |-> Serialize(v.tuple[i])])
      [] "namespace" \in DOMAIN v -> SerializeIdentifier(v)
      [] "ScoreTarget" \in DOMAIN v -> SerializeScoreTarget(v)
      [] "NumberProvider" \in DOMAIN v -> SerializeNumberProvider(v)
      [] "some" \in DOMAIN v -> Serialize(v.some)
      [] "none" \in DOMAIN v -> JNull
      [] "ApplyBonusFormula" \in DOMAIN v -> SerializeApplyBonusFormula(v)
      [] "CopyNbtSource" \in DOMAIN v -> SerializeCopyNbtSource(v)
      [] "struct" \in DOMAIN v -> SerializeStruct(v)
      [] "ItemModifier" \in DOMAIN v -> SerializeItemModifier(v)
      [] "OptionalRange" \in DOMAIN v -> SerializeUntagged(v)
      [] "BlockstateValue" \in DOMAIN v -> SerializeUntagged(v)
      [] "Predicate" \in DOMAIN v -> SerializePredicate(v)

---------------------------------------------------------------------------
(* The values the model encodes.                                           *)

Identifiers ==
    {IdentifierNew("foo", <<"bar", "quux">>),
     IdentifierNew("minecraft", <<"golden_carrot">>),
     IdentifierNew("test", <<"a", "b", "c">>)}

Scalars(num) == IF num = "i64" THEN {I64(1), I64(5)} ELSE {F64(5), F64(10)}

Scores == {Score(Fixed("foo"), "bar", 10), Score(Context("This"), "bar", 20)}

\* The Score providers encoded on their own: every kind of target with a
\* scale of 1.0 and with other scales.
ScoreTargets == {Fixed("foo"), Context("This"), Context("Killer")}
ScoresAlone == {Score(t, "bar", k) : t \in ScoreTargets, k \in {5, 10, 20}}

\* The NumberProvider<num> values nested to depth d at most.
RECURSIVE Providers(_, _)
Providers(num, d) ==
    IF d = 0 THEN {Constant(x) : x \in Scalars(num)} \cup Scores
    ELSE LET sub == Providers(num, d - 1)
         IN  sub
             \cup {Uniform(a, b) : a \in sub, b \in sub}
             \cup {Binomial(n, p) : n \in Providers("i64", d - 1),
                                    p \in Providers("f64", d - 1)}

\* NumberProvider<NumberProvider<N>>: a constant that holds a provider.
ProvidersOfProviders ==
    {Constant(x) : x \in Providers("i64", MaxDepth - 1) \cup Providers("f64", MaxDepth - 1)}

\* The limits of LimitCountExact, and those of LimitCountRange.
ExactLimits == Providers("i64", MaxDepth)
RangeLimits ==
    {[struct |-> "Range", min |-> a, max |-> b] :
        a \in Providers("i64", MaxDepth - 1), b \in Providers("i64", MaxDepth - 1)}

FooBar == IdentifierNew("foo", <<"bar">>)

\* The lists of (enchantment, level) given to SetEnchantments.
EnchantmentLists ==
    {<<>>,
     <<Tuple(<<Unit("Sharpness"), Constant(I64(5))>>)>>,
     <<Tuple(<<Unit("Sharpness"), Constant(I64(5))>>),
       Tuple(<<Unit("Looting"), Constant(I64(1))>>)>>,
     <<Tuple(<<Unit("Looting"), Constant(I64(1))>>),
       Tuple(<<Unit("Sharpness"), Constant(I64(5))>>)>>}

ItemModifiers ==
    {[ItemModifier |-> "ApplyBonus", enchantment |-> Unit("Looting"), formula |-> f] :
        f \in {[ApplyBonusFormula |-> "BinomialWithBonusCount",
                extra |-> I64(1), probability |-> F64(5)],
               [ApplyBonusFormula |-> "UniformBonusCount", bonus_multiplier |-> F64(10)],
               [ApplyBonusFormula |-> "OreDrops"]}}
    \cup {[ItemModifier |-> v] : v \in {"CopyName", "ExplosionDecay", "FurnaceSmelt"}}
    \cup {[ItemModifier |-> "CopyNbt", source |-> src,
           ops |-> Slice(<<[struct |-> "CopyNbtOperation", source |-> StrV("a"),
                            target |-> StrV("b"), op |-> Unit("Replace")]>>)] :
            src \in {[CopyNbtSource |-> "Storage", source |-> FooBar],
                     [CopyNbtSource |-> "Context", target |-> Unit("BlockEntity")]}}
    \cup {[ItemModifier |-> "CopyState", block |-> Unit("Dispenser"),
           properties |-> Slice(<<StrV("facing")>>)]}
    \cup {[ItemModifier |-> "EnchantRandomly", enchantments |-> o] :
            o \in {None, Some(Slice(<<Unit("Sharpness"), Unit("Looting")>>))}}
    \cup {[ItemModifier |-> "EnchantWithLevels", treasure |-> BoolV(t),
           levels |-> Constant(I64(5))] : t \in BOOLEAN}
    \cup {[ItemModifier |-> "ExplorationMap", destination |-> Unit("Mansion"),
           decoration |-> StrV("mansion"), zoom |-> I64(2), search_radius |-> I64(50),
           skip_existing_chunks |-> BoolV(k)] : k \in BOOLEAN}
    \cup {[ItemModifier |-> "FillPlayerHead", entity |-> Unit("KillerPlayer")]}
    \cup {[ItemModifier |-> "LimitCountExact", limit |-> l] : l \in ExactLimits}
    \cup {[ItemModifier |-> "LimitCountRange", limit |-> r] : r \in RangeLimits}
    \cup {[ItemModifier |-> "LootingEnchant", count |-> Constant(I64(1)), limit |-> I64(0)]}
    \cup {[ItemModifier |-> "SetAttributes",
           modifiers |-> Slice(<<[struct |-> "AttributeModifier", name |-> StrV("n"),
                                  attribute |-> StrV("generic.armor"),
                                  operation |-> Unit("Addition"),
                                  amount |-> Constant(F64(5)), id |-> id,
                                  slot |-> Unit("Mainhand")]>>)] :
            id \in {None, Some(StrV("uuid"))}}
    \cup {[ItemModifier |-> "SetBannerPattern", append |-> BoolV(a),
           patterns |-> Slice(<<[struct |-> "BannerPattern", pattern |-> StrV("mojang"),
                                 color |-> Unit("LightBlue")]>>)] : a \in BOOLEAN}
    \cup {[ItemModifier |-> "SetContents", entries |-> Slice(<<StrV("e")>>)]}
    \cup {[ItemModifier |-> "SetCount", count |-> c, add |-> BoolV(a)] :
            c \in Providers("i64", 0), a \in BOOLEAN}
    \cup {[ItemModifier |-> "SetDamage", damage |-> Constant(F64(5)), add |-> BoolV(a)] :
            a \in BOOLEAN}
    \cup {[ItemModifier |-> "SetEnchantments", enchantments |-> Slice(es),
           add |-> BoolV(a)] : es \in EnchantmentLists, a \in BOOLEAN}
    \cup {[ItemModifier |-> "SetLootTable", name |-> FooBar, seed |-> seed] :
            seed \in {None, Some(I64(5))}}
    \cup {[ItemModifier |-> "SetLore", lore |-> Slice(<<StrV("l")>>),
           entity |-> Unit("This"), replace |-> BoolV(r)] : r \in BOOLEAN}
    \cup {[ItemModifier |-> "SetName", name |-> StrV("n"), entity |-> Unit("This")]}
    \cup {[ItemModifier |-> "SetNbt", tag |-> StrV("{}")]}
    \cup {[ItemModifier |-> "SetStewEffect",
           effects |-> Slice(<<[struct |-> "StatusEffect", ty |-> Unit("Regeneration"),
                                duration |-> Constant(I64(5))]>>)]}

\* OptionalRange<NumberProvider<i64>>
ProviderRanges ==
    {[OptionalRange |-> "Exact", f0 |-> Constant(I64(5))],
     [OptionalRange |-> "Range",
      f0 |-> [struct |-> "Range", min |-> Constant(I64(1)), max |-> Score(Fixed("foo"), "bar", 10)]]}

EntityPredicates ==
    {Default("EntityPredicate"),
     [Default("EntityPredicate") EXCEPT
        !.flags = Some([Default("EntityFlags") EXCEPT !.is_baby = Some(BoolV(TRUE))]),
        !.ty = Some(Unit("Cow"))],
     [Default("EntityPredicate") EXCEPT
        !.distance = Some([Default("DistancePredicate") EXCEPT
                             !.horizontal = Some([struct |-> "Range", min |-> F64(0),
                                                  max |-> F64(100)])]),
        !.effects = Some(Slice(<<Tuple(<<Unit("Blindness"),
                                         [Default("EffectPredicate") EXCEPT
                                            !.ambient = Some(BoolV(FALSE))]>>)>>)),
        !.vehicle = Some(Default("EntityPredicate"))]}

LocationPredicates ==
    {Default("LocationPredicate"),
     [Default("LocationPredicate") EXCEPT
        !.block = Some([Default("BlockPredicate") EXCEPT
                          !.block = Some(Unit("Stone")),
                          !.state = Some(Slice(<<Tuple(<<StrV("age"),
                                                         [BlockstateValue |-> "Int",
                                                          f0 |-> I64(3)]>>)>>))]),
        !.position = Some([Default("PositionPredicate") EXCEPT
                             !.y = Some([OptionalRange |-> "Exact", f0 |-> I64(64)])]),
        !.smokey = Some(BoolV(TRUE))]}

ItemPredicates ==
    {Default("ItemPredicate"),
     [Default("ItemPredicate") EXCEPT
        !.count = Some([OptionalRange |-> "Exact", f0 |-> I64(32)]),
        !.enchantments = Some(Slice(<<[struct |-> "EnchantmentPredicate",
                                       enchantment |-> Unit("Sharpness"),
                                       levels |-> [OptionalRange |-> "Range",
                                                   f0 |-> [struct |-> "Range",
                                                           min |-> I64(1),
                                                           max |-> I64(5)]]]>>)),
        !.item = Some(Unit("Dirt"))]}

\* The predicates that hold no predicate.
Leaves ==
    {[Predicate |-> "BlockStateProperty", block |-> Unit("Dispenser"), properties |-> o] :
        o \in {None, Some(Slice(<<Tuple(<<StrV("facing"), StrV("up")>>),
                                  Tuple(<<StrV("triggered"), StrV("true")>>)>>))}}
    \cup {[Predicate |-> "DamageSourceProperties", predicate |-> d] :
            d \in {Default("DamagePredicate"),
                   [Default("DamagePredicate") EXCEPT
                      !.is_fire = Some(BoolV(TRUE)),
                      !.source_entity = Some(Default("EntityPredicate"))]}}
    \cup {[Predicate |-> "EntityProperties", entity |-> Unit("This"), predicate |-> e] :
            e \in EntityPredicates}
    \cup {[Predicate |-> "EntityScores", entity |-> Unit("Killer"),
           scores |-> Slice(<<Tuple(<<StrV("bar"), r>>)>>)] : r \in ProviderRanges}
    \cup {[Predicate |-> "KilledByPlayer", inverse |-> BoolV(b)] : b \in BOOLEAN}
    \cup {[Predicate |-> "LocationCheck", offset_x |-> x, offset_y |-> None,
           offset_z |-> z, predicate |-> l] :
            x \in {None, Some(I64(1))}, z \in {None, Some(I64(-1))},
            l \in LocationPredicates}
    \cup {[Predicate |-> "MatchTool", predicate |-> i] : i \in ItemPredicates}
    \cup {[Predicate |-> "RandomChance", chance |-> F64(5)]}
    \cup {[Predicate |-> "RandomChanceWithLooting", chance |-> F64(5),
           looting_multiplier |-> F64(1)]}
    \cup {[Predicate |-> "Reference", name |-> FooBar]}
    \cup {[Predicate |-> "SurvivesExplosion"]}
    \cup {[Predicate |-> "TableBonus", enchantment |-> I64(1),
           chances |-> Slice(<<F64(1), F64(5)>>)]}
    \cup {[Predicate |-> "TimeCheck", value |-> r, period |-> per] :
            r \in ProviderRanges, per \in {None, Some(I64(24000))}}
    \cup {[Predicate |-> "WeatherCheck", raining |-> r, thundering |-> t] :
            r \in {None, Some(BoolV(TRUE))}, t \in {None, Some(BoolV(FALSE))}}
    \cup {[Predicate |-> "ValueCheck", value |-> Constant(I64(5)), range |-> r] :
            r \in ProviderRanges}

\* The terms joined by the Alternative predicates of the model.
Terms(S) ==
    {[Predicate |-> "RandomChance", chance |-> F64(5)], [Predicate |-> "SurvivesExplosion"]}
    \cup {p \in S : p.Predicate = "Inverted" /\ p.term.Predicate = "RandomChance"}

\* The predicates nested to depth d at most.
RECURSIVE Predicates(_)
Predicates(d) ==
    IF d = 0 THEN Leaves
    ELSE LET sub == Predicates(d - 1)
         IN  sub
             \cup {[Predicate |-> "Inverted", term |-> p] : p \in sub}
             \cup {[Predicate |-> "Alternative", terms |-> Slice(ts)] :
                     ts \in {<<>>} \cup {<<p, q>> : p \in Terms(sub), q \in Terms(sub)}}

\* The structs of config_struct!.
ConfigStructs ==
    {"DamagePredicate", "DistancePredicate", "EffectPredicate", "EquipmentPredicate",
     "EntityFlags", "PlayerPredicate", "EntityPredicate", "ItemPredicate",
     "BlockPredicate", "FluidPredicate", "PositionPredicate", "LocationPredicate"}

FieldNames(s) == {StructFields(s)[i][1] : i \in 1..Len(StructFields(s))}

\* The lists of (name, predicate) given as the advancements of a player.
AdvancementLists ==
    LET complete(b) == [AdvancementPredicate |-> "Complete", f0 |-> BoolV(b)]
        criteria(cs) == [AdvancementPredicate |-> "Criteria", f0 |-> Slice(cs)]
        story == IdentifierNew("minecraft", <<"story", "root">>)
    IN  {<<>>,
         <<Tuple(<<FooBar, complete(TRUE)>>)>>,
         <<Tuple(<<FooBar, criteria(<<Tuple(<<StrV("a"), BoolV(TRUE)>>),
                                      Tuple(<<StrV("b"), BoolV(FALSE)>>)>>)>>)>>,
         <<Tuple(<<FooBar, complete(FALSE)>>),
           Tuple(<<story, criteria(<<Tuple(<<StrV("b"), BoolV(TRUE)>>)>>)>>)>>,
         <<Tuple(<<story, criteria(<<>>)>>), Tuple(<<FooBar, complete(TRUE)>>)>>}

\* The lists of (recipe, known) given as the recipes of a player.
RecipeLists ==
    LET cake == IdentifierNew("minecraft", <<"cake">>)
    IN  {<<>>,
         <<Tuple(<<cake, BoolV(TRUE)>>)>>,
         <<Tuple(<<cake, BoolV(TRUE)>>), Tuple(<<FooBar, BoolV(FALSE)>>)>>,
         <<Tuple(<<FooBar, BoolV(FALSE)>>), Tuple(<<cake, BoolV(TRUE)>>)>>}

\* The values a field of a config struct is set to, by the type of the field.
\* PlayerPredicate::gamemode stays unset: core::GameMode has no Serialize.
Samples(s, f) ==
    LET exact == [OptionalRange |-> "Exact", f0 |-> I64(32)]
        range == [struct |-> "Range", min |-> F64(0), max |-> F64(100)]
        states == Slice(<<Tuple(<<StrV("age"), [BlockstateValue |-> "Int", f0 |-> I64(3)]>>)>>)
    IN  CASE f \in {"bypasses_armor", "bypasses_invulnerability", "bypasses_magic",
                    "is_explosion", "is_fire", "is_magic", "is_projectile",
                    "is_lightning", "ambient", "visible", "is_on_fire", "is_sneaking",
                    "is_sprinting", "is_swimming", "is_baby", "smokey"} ->
                {BoolV(TRUE), BoolV(FALSE)}
          [] f \in {"direct_entity", "source_entity", "targeted_entity", "vehicle"} ->
                {Default("EntityPredicate")}
          [] s = "DistancePredicate" -> {range}
          [] s = "PositionPredicate" -> {exact}
          [] f \in {"amplifier", "duration", "level", "count", "durability", "light"} ->
                {exact}
          [] s = "EquipmentPredicate" ->
                {Default("ItemPredicate"),
                 [Default("ItemPredicate") EXCEPT !.item = Some(Unit("Dirt"))]}
          [] f = "advancements" -> {Slice(l) : l \in AdvancementLists}
          [] f = "recipes" -> {Slice(l) : l \in RecipeLists}
          [] f = "gamemode" -> {}
          [] f = "stats" ->
                {Slice(<<[struct |-> "StatisticPredicate",
                          ty |-> IdentifierNew("minecraft", <<"custom">>),
                          stat |-> IdentifierNew("minecraft", <<"jump">>),
                          value |-> exact]>>)}
          [] f = "distance" -> {Default("DistancePredicate")}
          [] f = "effects" ->
                {Slice(<<Tuple(<<Unit("Blindness"), Default("EffectPredicate")>>)>>)}
          [] f = "equipment" -> {Default("EquipmentPredicate")}
          [] f = "flags" -> {Default("EntityFlags")}
          [] f = "location" -> {Default("LocationPredicate")}
          [] f \in {"nbt", "team"} -> {StrV("x")}
          [] f = "player" -> {Default("PlayerPredicate")}
          [] f = "ty" -> {Unit("Cow")}
          [] f \in {"enchantments", "stored_enchantments"} ->
                {Slice(<<[struct |-> "EnchantmentPredicate",
                          enchantment |-> Unit("Sharpness"), levels |-> exact]>>)}
          [] f = "item" -> {Unit("Dirt")}
          [] f = "potion" -> {Unit("Swiftness")}
          [] f \in {"tag", "biome", "dimension"} -> {FooBar}
          [] f = "state" -> {states}
          [] s = "BlockPredicate" /\ f = "block" -> {Unit("Stone")}
          [] s = "FluidPredicate" /\ f = "fluid" -> {FooBar}
          [] s = "LocationPredicate" /\ f = "block" -> {Default("BlockPredicate")}
          [] s = "LocationPredicate" /\ f = "fluid" -> {Default("FluidPredicate")}
          [] f = "feature" -> {Unit("Mansion")}
          [] f = "position" -> {Default("PositionPredicate")}

\* The values of config struct s encoded: with no field set, with one field
\* set, and with two fields set.
ConfigValues(s) ==
    {Default(s)}
    \cup UNION {{[Default(s) EXCEPT ![f] = Some(x)] : x \in Samples(s, f)} :
                   f \in FieldNames(s)}
    \cup UNION {{[Default(s) EXCEPT ![fg[1]] = Some(x), ![fg[2]] = Some(y)] :
                     x \in Samples(s, fg[1]), y \in Samples(s, fg[2])} :
                   fg \in {p \in FieldNames(s) \X FieldNames(s) : p[1] # p[2]}}

\* serde_json::to_string(&v) / to_writer(out, &v): one document per value.
Encoded(kind, v) ==
    /\ value' = [kind |-> kind, of |-> v]
    /\ doc' = Some(Serialize(v))
    /\ UNCHANGED <<fnVars, selVars, packVars, scoreVars>>

EncodeIdentifier ==
    /\ doc = None
    /\ \E id \in Identifiers : Encoded("Identifier", id)

EncodeNumberProvider ==
    /\ doc = None
    /\ \E np \in Providers("i64", MaxDepth) \cup Providers("f64", MaxDepth)
                  \cup ProvidersOfProviders \cup ScoresAlone :
           Encoded("NumberProvider", np)

EncodeItemModifier ==
    /\ doc = None
    /\ \E m \in ItemModifiers : Encoded("ItemModifier", m)

EncodePredicate ==
    /\ doc = None
    /\ \E p \in Predicates(MaxDepth + 1) : Encoded("Predicate", p)

\* A config struct encoded on its own.
EncodeConfig ==
    /\ doc = None
    /\ \E s \in ConfigStructs : \E v \in ConfigValues(s) : Encoded("Config", v)

EncInit == FunctionNew /\ SelIdle /\ EncIdle /\ PackIdle

EncNext ==
    \/ EncodeIdentifier
    \/ EncodeNumberProvider
    \/ EncodeItemModifier
    \/ EncodePredicate
    \/ EncodeConfig

SpecEncode == EncInit /\ [][EncNext]_vars

---------------------------------------------------------------------------
(* Identifier::new and the files of a datapack (core/mod.rs,               *)
(* datapack/mod.rs, datapack/function.rs).  A path is the sequence of its  *)
(* components below the datapack's directory, <<>> being that directory.   *)

\* How a call ends: it returns a value, or it panics and the run aborts.
Returned(v) == [outcome |-> "returned", result |-> v]
Panicked(why) == [outcome |-> "panicked", why |-> why]

\* Identifier::new returning an identifier for every list of parts, one with
\* an empty id for the empty list.
IdentifierNewLenient(namespace, parts, build) ==
    IF parts = <<>>
    THEN Returned([namespace |-> namespace, folders |-> <<>>, id |-> ""])
    ELSE Returned(IdentifierNew(namespace, parts))

\* Identifier::new(namespace, parts).  With no part, `parts.len()-1` panics
\* on overflow in a build that checks arithmetic; in a build that wraps it
\* is usize::MAX, and the slice `parts[..usize::MAX]` panics.
IdentifierNewCall(namespace, parts, build) ==
    IF parts = <<>>
    THEN (IF build = "checked"
          THEN Panicked("attempt to subtract with overflow")
          ELSE Panicked("range end index out of range for slice"))
    ELSE Returned(IdentifierNew(namespace, parts))

\* The arguments given to Identifier::new.
Namespaces == {"foo", "minecraft", ""}
Parts == {"bar", "quux", ""}
PartLists ==
    {<<>>} \cup {<<a>> : a \in Parts} \cup {<<a, b>> : a \in Parts, b \in Parts}
Builds == {"checked", "wrapping"}

\* Identifier::join(path, folder, extension), path being the data directory.
join(id, folder, extension) ==
    <<"data", id.namespace, folder>> \o id.folders \o <<id.id \o "." \o extension>>

Parent(path) == SubSeq(path, 1, Len(path) - 1)
Ancestors(path) == {SubSeq(path, 1, n) : n \in 0..Len(path)}

\* What the sink answers to one operation: whether it succeeded, and the
\* files it holds afterwards.  `grants` is the sink's own choice; an
\* operation the sink refuses leaves the files as they were.

\* fs::create_dir_all: Ok for a directory that exists, otherwise it makes the
\* missing ancestors and then the directory.  A refusal comes either before
\* anything is made or, `partial`, once the ancestors are made; the directory
\* itself is not made by a call that fails.
create_dir_all(f, path, grants, partial) ==
    IF path \in f.dirs THEN [ok |-> TRUE, fs |-> f]
    ELSE IF grants THEN [ok |-> TRUE, fs |-> [f EXCEPT !.dirs = @ \cup Ancestors(path)]]
    ELSE IF partial
    THEN [ok |-> FALSE, fs |-> [f EXCEPT !.dirs = @ \cup Ancestors(Parent(path))]]
    ELSE [ok |-> FALSE, fs |-> f]

\* fs::remove_dir_all of the datapack's directory.
remove_dir_all(f, grants) ==
    IF <<>> \in f.dirs /\ grants
    THEN [ok |-> TRUE, fs |-> [dirs |-> {}, files |-> {}, written |-> {}]]
    ELSE [ok |-> FALSE, fs |-> f]

\* File::create: an empty file in a directory that exists.
FileCreate(f, path, grants) ==
    IF Parent(path) \in f.dirs /\ grants
    THEN [ok |-> TRUE, fs |-> [f EXCEPT !.files = @ \cup {path}, !.written = @ \ {path}]]
    ELSE [ok |-> FALSE, fs |-> f]

\* A write of a whole text to a file created before.
WriteAll(f, path, grants) ==
    IF path \in f.files /\ grants
    THEN [ok |-> TRUE, fs |-> [f EXCEPT !.written = @ \cup {path}]]
    ELSE [ok |-> FALSE, fs |-> f]

\* An unwrap that lets the call go on after an Err as well.
unwrapIgnored(r) == TRUE

\* Result::unwrap: the call goes on after an Ok and panics on an Err.
unwrap(r) == r.ok

\* The sink's choices for the operations of one call.
Sinks ==
    {k \in [remove : BOOLEAN, mkdir : BOOLEAN, partial : BOOLEAN,
            create : BOOLEAN, write : BOOLEAN] : k.partial => ~k.mkdir}
Granting ==
    [remove |-> TRUE, mkdir |-> TRUE, partial |-> FALSE, create |-> TRUE, write |-> TRUE]
SinksWithoutRemove == {k \in Sinks : k.remove}

\* The operations of a call, as <<name, result>>, that failed.
Failed(steps) == {steps[i][1] : i \in {j \in 1..Len(steps) : ~steps[j][2].ok}}

\* The locations given to Datapack::function, item_modifier and predicate.
PackLocations ==
    {IdentifierNew("foo", <<"bar">>), IdentifierNew("foo", <<"bar", "quux">>)}

\* The process has not aborted.
Running == ~("outcome" \in DOMAIN call /\ call.outcome = "panicked")

\* A Datapack value exists: Datapack::new has returned.
HasDatapack == Running /\ <<"data">> \in fs.dirs

\* A call of Identifier::new.
NewIdentifier ==
    /\ Running
    /\ \E namespace \in Namespaces, parts \in PartLists, build \in Builds :
          call' = [op |-> "Identifier::new", namespace |-> namespace, parts |-> parts,
                   end |-> IdentifierNewCall(namespace, parts, build),
                   outcome |-> IdentifierNewCall(namespace, parts, build).outcome]
    /\ UNCHANGED <<fs, fnVars, selVars, encVars, scoreVars>>

\* A call on the datapack that made the sink operations `steps`, the last
\* one reached being the one that ended it.
PackCall(op, location, sink, steps, ended, f) ==
    /\ fs' = f
    /\ call' = [op |-> op, location |-> location, sink |-> sink,
                failed |-> Failed(steps),
                outcome |-> IF ended THEN "returned" ELSE "panicked"]
    /\ UNCHANGED <<fnVars, selVars, encVars, scoreVars>>

\* Datapack::new
DatapackNewOn(sink) ==
    LET r1 == remove_dir_all(fs, sink.remove)
        r2 == create_dir_all(r1.fs, <<"data">>, sink.mkdir, sink.partial)
        r3 == FileCreate(r2.fs, <<"pack.mcmeta">>, sink.create)
        r4 == WriteAll(r3.fs, <<"pack.mcmeta">>, sink.write)
    IN  IF ~unwrap(r2)
        THEN PackCall("Datapack::new", None, sink,
                      << <<"remove_dir_all", r1>>, <<"create_dir_all", r2>> >>, FALSE, r2.fs)
        ELSE IF ~unwrap([ok |-> r3.ok /\ r4.ok])
        THEN PackCall("Datapack::new", None, sink,
                      << <<"remove_dir_all", r1>>, <<"create_dir_all", r2>>,
                         <<"fs::write", [ok |-> r3.ok /\ r4.ok]>> >>, FALSE, r4.fs)
        ELSE PackCall("Datapack::new", None, sink,
                      << <<"remove_dir_all", r1>>, <<"create_dir_all", r2>>,
                         <<"fs::write", r4>> >>, TRUE, r4.fs)

DatapackNew ==
    /\ Running
    /\ <<"data">> \notin fs.dirs
    /\ \E sink \in Sinks : DatapackNewOn(sink)

\* Datapack::function, that is Function::new
DatapackFunctionOn(location, sink) ==
    LET functions == <<"data", location.namespace, "functions">> \o location.folders
        out_path == functions \o <<location.id \o ".mcfunction">>
        r1 == create_dir_all(fs, functions, sink.mkdir, sink.partial)
        r2 == FileCreate(r1.fs, out_path, sink.create)
    IN  IF ~unwrap(r1)
        THEN PackCall("Datapack::function", Some(location), sink,
                      << <<"create_dir_all", r1>> >>, FALSE, r1.fs)
        ELSE PackCall("Datapack::function", Some(location), sink,
                      << <<"create_dir_all", r1>>, <<"File::create", r2>> >>,
                      unwrap(r2), r2.fs)

DatapackFunction ==
    /\ HasDatapack
    /\ \E location \in PackLocations, sink \in SinksWithoutRemove : DatapackFunctionOn(location, sink)

\* Datapack::item_modifier and Datapack::predicate: the result of
\* create_dir_all is dropped (`let _ =`), those of File::create and of
\* serde_json::to_writer are unwrapped.
DatapackDocumentOn(op, folder, location, sink) ==
    LET path == join(location, folder, "json")
        r1 == create_dir_all(fs, <<"data", location.namespace, folder>>,
                             sink.mkdir, sink.partial)
        r2 == FileCreate(r1.fs, path, sink.create)
        r3 == WriteAll(r2.fs, path, sink.write)
    IN  IF ~unwrap(r2)
        THEN PackCall(op, Some(location), sink,
                      << <<"create_dir_all", r1>>, <<"File::create", r2>> >>, FALSE, r2.fs)
        ELSE PackCall(op, Some(location), sink,
                      << <<"create_dir_all", r1>>, <<"File::create", r2>>,
                         <<"serde_json::to_writer", r3>> >>, unwrap(r3), r3.fs)

DatapackItemModifier ==
    /\ HasDatapack
    /\ \E location \in PackLocations, sink \in SinksWithoutRemove :
          DatapackDocumentOn("Datapack::item_modifier", "item_modifiers", location, sink)

DatapackPredicate ==
    /\ HasDatapack
    /\ \E location \in PackLocations, sink \in SinksWithoutRemove :
          DatapackDocumentOn("Datapack::predicate", "predicates", location, sink)

\* Function::run on a function of the datapack: every write! is unwrapped.
RunOnSink ==
    /\ HasDatapack
    /\ \E path \in {p \in fs.files : Len(p) > 3 /\ p[3] = "functions"},
          sink \in SinksWithoutRemove :
          LET r1 == WriteAll(fs, path, sink.write)
          IN  PackCall("Function::run", None, sink, << <<"write!", r1>> >>,
                       unwrap(r1), r1.fs)

PackInit == FunctionNew /\ SelIdle /\ EncIdle /\ PackIdle

PackNext ==
    \/ NewIdentifier
    \/ DatapackNew
    \/ DatapackFunction
    \/ DatapackItemModifier
    \/ DatapackPredicate
    \/ RunOnSink

SpecPack == PackInit /\ [][PackNext]_vars

---------------------------------------------------------------------------
(* Scores of a function (score/mod.rs, datapack/function.rs).  A           *)
(* ScoreValue writes through a handle of its own on the function's file;   *)
(* offset[d] is the position of file description d, the function's own     *)
(* being description 1.                                                    *)

\* The model holds at most MaxScores ScoreValues at a time, each of a name
\* of its own, and writes at most MaxLines lines to the function's file.
MaxScores == 2
MaxLines == 3

ScoreNames == {"#x", "#y"}
Objectives == {"global"}
ScoreConstants == {5}

\* A try_clone that opens the file anew: a description of its own, at the
\* start of the file.
try_cloneReopened(d, table) == [desc |-> Len(table) + 1, table |-> Append(table, 0)]

\* File::try_clone: a second handle on the same file description, which
\* shares its position with the first.
try_clone(d, table) == [desc |-> d, table |-> table]

\* ScoreValue::new
ScoreValueNew(n, objective, o) == [name |-> n, objective |-> objective, out |-> o]

\* `scoreboard players operation {} {} <op> {} {}`
OperationLine(s, op, rhs) ==
    <<"scoreboard players operation ", s.name, " ", s.objective, " ", op, " ",
      rhs.name, " ", rhs.objective>>

\* `scoreboard players <verb> {} {} {}`
ConstantLine(verb, s, n) ==
    <<"scoreboard players ", verb, " ", s.name, " ", s.objective, " ", IntFmt(n)>>

CanWrite == Len(log) < MaxLines

\* writeln!(self.out, ...).unwrap() by the operation `op` of ScoreValue
\* number i, the other operand being `rhs`.
Writeln(op, i, rhs, line) ==
    /\ out' = WriteAt(out, offset[scores[i].out], line \o <<"\n">>)
    /\ offset' = [offset EXCEPT ![scores[i].out] = @ + Len(line) + 1]
    /\ log' = Append(log, line \o <<"\n">>)
    /\ mark' = offset[scores[i].out]
    /\ cmd' = [op |-> op, lhs |-> scores[i], rhs |-> rhs]
    /\ ovr' = {}

\* An operator that takes the other score by reference: both stay alive.
Operation(op, symbol) ==
    \E i, j \in 1..Len(scores) :
        /\ i # j
        /\ Writeln(op, i, Some(scores[j]), OperationLine(scores[i], symbol, scores[j]))
        /\ UNCHANGED <<scores, prefix, runs, selVars, encVars, packVars>>

\* Function::score
FunctionScore ==
    /\ Len(scores) < MaxScores
    /\ \E n \in ScoreNames \ {scores[k].name : k \in 1..Len(scores)},
          objective \in Objectives :
          LET file == try_clone(1, offset)
          IN  /\ scores' = Append(scores, ScoreValueNew(n, objective, file.desc))
              /\ offset' = file.table
              /\ UNCHANGED <<out, prefix, runs, cmd, ovr, mark, log,
                             selVars, encVars, packVars>>

\* ScoreValue::set_to
ScoreSetTo ==
    /\ CanWrite
    /\ \E i \in 1..Len(scores), to \in ScoreConstants :
          /\ Writeln("set_to", i, None, ConstantLine("set", scores[i], to))
          /\ UNCHANGED <<scores, prefix, runs, selVars, encVars, packVars>>

\* ScoreValue::set
ScoreSet == CanWrite /\ Operation("set", "=")

\* impl Add<&Self>
ScoreAdd == CanWrite /\ Operation("add", "+=")

\* impl Add<i64>
ScoreAddConstant ==
    /\ CanWrite
    /\ \E i \in 1..Len(scores), rhs \in ScoreConstants :
          /\ Writeln("add i64", i, None, ConstantLine("add", scores[i], rhs))
          /\ UNCHANGED <<scores, prefix, runs, selVars, encVars, packVars>>

\* impl Sub<&Self>
ScoreSub == CanWrite /\ Operation("sub", "-=")

\* impl Sub<i64>
ScoreSubConstant ==
    /\ CanWrite
    /\ \E i \in 1..Len(scores), rhs \in ScoreConstants :
          /\ Writeln("sub i64", i, None, ConstantLine("remove", scores[i], rhs))
          /\ UNCHANGED <<scores, prefix, runs, selVars, encVars, packVars>>

\* impl Mul<&Self>
ScoreMul == CanWrite /\ Operation("mul", "*=")

\* impl Div<&Self>
ScoreDiv == CanWrite /\ Operation("div", "/=")

\* impl Rem<&Self>
ScoreRem == CanWrite /\ Operation("rem", "*=")

\* impl Shl<&Self>
ScoreShl == CanWrite /\ Operation("shl", "<")

\* impl Shr<&Self>
ScoreShr == CanWrite /\ Operation("shr", ">")

\* impl BitOrAssign: the other score is taken by value and dropped.
ScoreBitOrAssign ==
    /\ CanWrite
    /\ \E i, j \in 1..Len(scores) :
          /\ i # j
          /\ Writeln("bitor_assign", i, Some(scores[j]),
                     OperationLine(scores[i], "><", scores[j]))
          /\ scores' = SubSeq(scores, 1, j - 1) \o SubSeq(scores, j + 1, Len(scores))
          /\ UNCHANGED <<prefix, runs, selVars, encVars, packVars>>

\* func.run(Kill::default()) between the operations on the scores.
RunKillSelf ==
    /\ CanRun
    /\ CanWrite
    /\ FunctionRun(Kill, {})

ScoreInit == FunctionNew /\ SelIdle /\ EncIdle /\ PackIdle

ScoreNext ==
    \/ FunctionScore
    \/ ScoreSetTo
    \/ ScoreSet
    \/ ScoreAdd
    \/ ScoreAddConstant
    \/ ScoreSub
    \/ ScoreSubConstant
    \/ ScoreMul
    \/ ScoreDiv
    \/ ScoreRem
    \/ ScoreShl
    \/ ScoreShr
    \/ ScoreBitOrAssign
    \/ RunKillSelf

SpecScore == ScoreInit /\ [][ScoreNext]_vars

---------------------------------------------------------------------------
(* The command script: claims C1 to C4.                                    *)

\* The optional fields of EffectGive in declared order, and their defaults.
EffectGiveField(c, i) ==
    CASE i = 1 -> c.seconds
      [] i = 2 -> c.amplifier
      [] i = 3 -> c.hide_particles

EffectGiveDefault(i) ==
    CASE i = 1 -> 30
      [] i = 2 -> 0
      [] i = 3 -> FALSE

EffectGiveFieldText(c, i) ==
    IF i = 3 THEN BoolFmt(c.hide_particles) ELSE IntFmt(EffectGiveField(c, i))

\* The highest index of a field that differs from its default, 0 if none does.
VariationIndex(c) ==
    LET dev == {i \in 1..3 : EffectGiveField(c, i) # EffectGiveDefault(i)}
    IN  IF dev = {} THEN 0 ELSE CHOOSE i \in dev : \A j \in dev : j <= i

RECURSIVE FieldsUpTo(_, _)
FieldsUpTo(c, k) ==
    IF k = 0 THEN <<>> ELSE FieldsUpTo(c, k - 1) \o <<" ", EffectGiveFieldText(c, k)>>

EffectGiveHead(c) ==
    <<"effect give", " ">> \o SelectorFmt(c.target) \o <<" ", CatalogName(c.effect)>>

\* C1: EffectGive.output prints, after `effect give <target> <effect>`, the
\* fields seconds, amplifier, hide_particles from the first up to and
\* including the last one that differs from its default (30, 0, false), and
\* nothing when none differs.
C1_EffectGiveElision ==
    cmd.op = "EffectGive" =>
        LastOutput = EffectGiveHead(cmd) \o FieldsUpTo(cmd, VariationIndex(cmd))

\* seconds and amplifier at their defaults are printed before a set hide_particles.
C1_Witness ==
    /\ cmd.op = "EffectGive"
    /\ cmd.seconds = 30 /\ cmd.amplifier = 0 /\ cmd.hide_particles
    /\ Str(LastOutput) = "effect give @s regeneration 30 0 true"

\* C2: a command built by EffectGive(target, effect) with no field given in a
\* struct update holds every optional field at its default, and Function::run
\* renders it as `effect give <target> <effect>` and nothing more.
C2_ConstructorRendersBare ==
    (cmd.op = "EffectGive" /\ ovr = {}) =>
        /\ \A i \in 1..3 : EffectGiveField(cmd, i) = EffectGiveDefault(i)
        /\ SubSeq(out, mark + 1, Len(out)) = EffectGiveHead(cmd) \o <<"\n">>

\* The text Clear.output writes under trailing-optional elision.
ClearElided(c) ==
    IF IsSome(c.item)
    THEN <<"clear", " ">> \o SelectorFmt(c.target) \o <<" ", CatalogName(c.item.some[1])>>
         \o (IF IsSome(c.item.some[2]) THEN <<" ", IntFmt(c.item.some[2].some)>> ELSE <<>>)
    ELSE IF c.target = at_s THEN <<"clear">>
    ELSE <<"clear", " ">> \o SelectorFmt(c.target)

\* C3: Clear.output prints `clear <target> <item>` (and the count when set)
\* whenever item is set, also for the default target at_s(); the target is
\* left out only when it is at_s() and item is unset.
C3_ClearElision == cmd.op = "Clear" => LastOutput = ClearElided(cmd)

\* No line of the script s, a sequence of tokens, is empty.
NoEmptyLine(s) ==
    /\ s # <<>> => Head(s) # "\n"
    /\ \A i \in 1..(Len(s) - 1) : ~(s[i] = "\n" /\ s[i + 1] = "\n")

\* C4: after n Function::run calls the script holds exactly n lines, each
\* ended by one line terminator, and no empty line.
C4_OneLinePerRun == Count(out, "\n") = runs /\ NoEmptyLine(out)

---------------------------------------------------------------------------
(* Selector rendering: claim C5.                                           *)

\* A polarity criterion as `key=value` or `key=!value`.
PolarityText(key, o, valueText) ==
    <<key, "=">> \o (IF o.some[2] THEN <<>> ELSE <<"!">>) \o <<valueText>>

RangeText(key, o) == <<key, "=", IntFmt(o.some[1]), "..", IntFmt(o.some[2])>>

\* The `key=value` items of the set criteria of s, in the fixed order limit,
\* sort, level, gamemode, name, x_rotation, y_rotation, type, tag.
CriteriaItems(s) ==
    (IF IsSome(s.limit) THEN << <<"limit", "=", IntFmt(s.limit.some)>> >> ELSE <<>>)
    \o (IF IsSome(s.sort) THEN << <<"sort", "=", SelectorSortFmt(s.sort.some)>> >> ELSE <<>>)
    \o (IF IsSome(s.level) THEN <<RangeText("level", s.level)>> ELSE <<>>)
    \o (IF IsSome(s.game_mode)
        THEN <<PolarityText("gamemode", s.game_mode, GameModeFmt(s.game_mode.some[1]))>>
        ELSE <<>>)
    \o (IF IsSome(s.name) THEN <<PolarityText("name", s.name, s.name.some[1])>> ELSE <<>>)
    \o (IF IsSome(s.x_rot) THEN <<RangeText("x_rotation", s.x_rot)>> ELSE <<>>)
    \o (IF IsSome(s.y_rot) THEN <<RangeText("y_rotation", s.y_rot)>> ELSE <<>>)
    \o (IF IsSome(s.ty) THEN <<PolarityText("type", s.ty, CatalogName(s.ty.some[1]))>> ELSE <<>>)
    \o (IF IsSome(s.tag) THEN <<PolarityText("tag", s.tag, s.tag.some[1])>> ELSE <<>>)

\* The items joined by single commas.
RECURSIVE CommaJoined(_)
CommaJoined(items) ==
    IF items = <<>> THEN <<>>
    ELSE IF Len(items) = 1 THEN items[1]
    ELSE items[1] \o <<",">> \o CommaJoined(Tail(items))

\* C5: a rendered selector with k >= 1 criteria set is `@<code>[`, the k set
\* criteria as `key=value` items in the fixed order joined by single commas,
\* and `]`: k items, k-1 commas, no unset criterion.
C5_CriteriaCommaJoined ==
    (text # <<>> /\ CriteriaItems(sel) # <<>>) =>
        /\ text = <<"@", SelectorTypeFmt(sel.sel), "[">>
                  \o CommaJoined(CriteriaItems(sel)) \o <<"]">>
        /\ Count(text, "=") = Len(CriteriaItems(sel))
        /\ Count(text, ",") = Len(CriteriaItems(sel)) - 1

---------------------------------------------------------------------------
(* The JSON documents: claims C6 to C10.  Specification SpecEncode.        *)

IsObj(j) == "jobj" \in DOMAIN j
Keys(j) == [i \in 1..Len(j.jobj) |-> j.jobj[i][1]]
Get(j, k) == j.jobj[CHOOSE i \in 1..Len(j.jobj) : j.jobj[i][1] = k][2]

\* The names of the fields of v that are written, in declared order.
WrittenNames(v, fields) ==
    LET written == SelectSeq(fields, LAMBDA f : ~Skipped(v[f[1]], f[2]))
    IN  [i \in 1..Len(written) |-> written[i][3]]

\* namespace, a colon, each folder followed by "/", then the id.
RECURSIVE SegmentsText(_)
SegmentsText(segs) ==
    IF segs = <<>> THEN "" ELSE Head(segs) \o "/" \o SegmentsText(Tail(segs))
CanonicalIdentifier(id) == id.namespace \o ":" \o SegmentsText(id.folders) \o id.id

\* C6: an Identifier is encoded as the JSON string namespace:seg1/seg2/.../id,
\* the namespace, a colon, each folder followed by "/", then the id.
C6_IdentifierLeaf ==
    value.kind = "Identifier" => doc.some = JStr(CanonicalIdentifier(value.of))

\* The snake_case external name of a variant of ItemModifier.
ExternalFunctionName(v) ==
    IF v \in {"LimitCountExact", "LimitCountRange"} THEN "limit_count" ELSE SnakeCase(v)

\* C7: every ItemModifier variant encodes as a JSON object whose `function`
\* field is the snake_case name of the variant (set_count, explosion_decay,
\* copy_name), the fields of the variant lying in the same object.
C7_FunctionIsSnakeCase ==
    value.kind = "ItemModifier" =>
        /\ IsObj(doc.some)
        /\ Len(doc.some.jobj) >= 1
        /\ doc.some.jobj[1] = <<"function", JStr(ExternalFunctionName(value.of.ItemModifier))>>
        /\ value.of.ItemModifier \notin {"ApplyBonus", "CopyName", "SetEnchantments"} =>
              Tail(Keys(doc.some)) =
                  WrittenNames(value.of, ItemModifierFields(value.of.ItemModifier))

\* A predicate and its document: an object, `condition` first and holding the
\* snake_case name, then the written fields in declared order, the term of
\* Inverted and the terms of Alternative following the same rule.
RECURSIVE FollowsRule(_, _)
FollowsRule(p, j) ==
    /\ IsObj(j)
    /\ Keys(j) = <<"condition">> \o WrittenNames(p, PredicateFields(p.Predicate))
    /\ j.jobj[1][2] = JStr(SnakeCase(p.Predicate))
    /\ p.Predicate = "Inverted" => FollowsRule(p.term, Get(j, "term"))
    /\ p.Predicate = "Alternative" =>
          LET terms == Get(j, "terms")
          IN  /\ "jarr" \in DOMAIN terms
              /\ Len(terms.jarr) = Len(p.terms.slice)
              /\ \A i \in 1..Len(terms.jarr) : FollowsRule(p.terms.slice[i], terms.jarr[i])

\* C8: every Predicate variant encodes as a JSON object whose first field
\* `condition` is the snake_case name of the variant, followed by its fields in
\* declared order, child predicates following the same rule at every depth.
C8_PredicateRule ==
    value.kind = "Predicate" => FollowsRule(value.of, doc.some)

C8_Witness ==
    /\ value.kind = "Predicate"
    /\ value.of = [Predicate |-> "Inverted",
                   term |-> [Predicate |-> "RandomChance", chance |-> F64(5)]]
    /\ JsonText(doc.some) =
         "{\"condition\":\"inverted\",\"term\":{\"condition\":\"random_chance\",\"chance\":0.5}}"

\* The documents of the LimitCountExact and of the LimitCountRange values.
ExactDocuments == {Serialize([ItemModifier |-> "LimitCountExact", limit |-> l]) : l \in ExactLimits}
RangeDocuments == {Serialize([ItemModifier |-> "LimitCountRange", limit |-> r]) : r \in RangeLimits}

\* C9: LimitCountExact and LimitCountRange both encode the function
\* limit_count; the limit of a document is an object with exactly the keys min
\* and max if and only if the value is a LimitCountRange, and no document of
\* one variant is a document of the other.
C9_LimitShapes ==
    (value.kind = "ItemModifier"
     /\ value.of.ItemModifier \in {"LimitCountExact", "LimitCountRange"}) =>
        LET l == Get(doc.some, "limit")
        IN  /\ Get(doc.some, "function") = JStr("limit_count")
            /\ (IsObj(l) /\ Keys(l) = <<"min", "max">>)
                  <=> value.of.ItemModifier = "LimitCountRange"
            /\ value.of.ItemModifier = "LimitCountExact" => doc.some \notin RangeDocuments
            /\ value.of.ItemModifier = "LimitCountRange" => doc.some \notin ExactDocuments

C9_Witness ==
    /\ value.kind = "ItemModifier"
    /\ value.of = [ItemModifier |-> "LimitCountExact",
                   limit |-> Uniform(Constant(I64(1)), Constant(I64(5)))]
    /\ JsonText(doc.some) =
         "{\"function\":\"limit_count\",\"limit\":{\"type\":\"uniform\",\"min\":1,\"max\":5}}"

\* A number provider and its document: a constant is the bare scalar it holds
\* (or, holding a provider, the document of that provider), every other
\* variant an object with `type` first, its children following the same rule.
RECURSIVE Collapsed(_, _)
Collapsed(np, j) ==
    IF np.NumberProvider = "Constant"
    THEN IF "NumberProvider" \in DOMAIN np.f0 THEN Collapsed(np.f0, j)
         ELSE /\ ~IsObj(j)
              /\ j = (IF "i64" \in DOMAIN np.f0 THEN JInt(np.f0.i64) ELSE JFloat(np.f0.f64))
    ELSE /\ IsObj(j)
         /\ j.jobj[1] = <<"type", JStr(CASE np.NumberProvider = "Uniform" -> "uniform"
                                         [] np.NumberProvider = "Binomial" -> "binomial"
                                         [] np.NumberProvider = "Score" -> "score")>>
         /\ np.NumberProvider = "Uniform" =>
               Collapsed(np.min, Get(j, "min")) /\ Collapsed(np.max, Get(j, "max"))
         /\ np.NumberProvider = "Binomial" =>
               Collapsed(np.n, Get(j, "n")) /\ Collapsed(np.p, Get(j, "p"))

---------------------------------------------------------------------------
(* The JSON documents: claims C11 to C16.  Specification SpecEncode.       *)

\* The document of a score target: the snake_case name of a context entity
\* as a bare string, or {"type":"fixed","name":<name>}.
TargetDocument(t) ==
    IF t.ScoreTarget = "Context"
    THEN JStr(CASE t.f0.unit = "This" -> "this"
                [] t.f0.unit = "Killer" -> "killer"
                [] t.f0.unit = "DirectKiller" -> "direct_killer"
                [] t.f0.unit = "PlayerKiller" -> "player_killer")
    ELSE JObj(<< <<"type", JStr("fixed")>>, <<"name", JStr(t.f0.str)>> >>)

\* C11: a Score provider encodes as an object with `type` set to score, then
\* `target` and `score`, and a `scale` key exactly when the scale is not 1.0;
\* the target is a bare context-entity string or {type: fixed, name}.
C11_ScoreShape ==
    (value.kind = "NumberProvider" /\ value.of.NumberProvider = "Score") =>
        LET np == value.of
            j == doc.some
        IN  /\ IsObj(j)
            /\ Keys(j) = <<"type", "target", "score">>
                          \o (IF np.scale.f64 # 10 THEN <<"scale">> ELSE <<>>)
            /\ Get(j, "type") = JStr("score")
            /\ Get(j, "target") = TargetDocument(np.target)
            /\ Get(j, "score") = JStr(np.score.str)
            /\ np.scale.f64 # 10 => Get(j, "scale") = JFloat(np.scale.f64)

C11_Witness ==
    /\ value.kind = "NumberProvider"
    /\ value.of = Score(Fixed("foo"), "bar", 10)
    /\ JsonText(doc.some) = "{\"type\":\"score\",\"target\":{\"type\":\"fixed\",\"name\":\"foo\"},\"score\":\"bar\"}"

\* The boolean flag fields of a variant.
FlagFields(v) ==
    IF "ItemModifier" \in DOMAIN v
    THEN CASE v.ItemModifier = "EnchantWithLevels" -> {"treasure"}
           [] v.ItemModifier = "ExplorationMap" -> {"skip_existing_chunks"}
           [] v.ItemModifier = "SetBannerPattern" -> {"append"}
           [] v.ItemModifier \in {"SetCount", "SetDamage", "SetEnchantments"} -> {"add"}
           [] v.ItemModifier = "SetLore" -> {"replace"}
           [] OTHER -> {}
    ELSE IF v.Predicate = "KilledByPlayer" THEN {"inverse"} ELSE {}

HasKey(j, k) == \E i \in 1..Len(j.jobj) : j.jobj[i][1] = k

\* C12: every boolean flag field (treasure, skip_existing_chunks, append,
\* add, replace, inverse) is omitted from the document when false and
\* present as true when true.
C12_FlagsOmittedWhenFalse ==
    value.kind \in {"ItemModifier", "Predicate"} =>
        \A f \in FlagFields(value.of) :
            /\ HasKey(doc.some, f) <=> (value.of[f] = BoolV(TRUE))
            /\ HasKey(doc.some, f) => Get(doc.some, f) = JBool(TRUE)

\* C13: SetCount encodes without an `add` key when add is false and with
\* "add":true when add is true, its `count` key present either way; the same
\* holds for the `add` of SetEnchantments next to its `enchantments` key.
C13_AddOnlyWhenTrue ==
    (value.kind = "ItemModifier"
        /\ value.of.ItemModifier \in {"SetCount", "SetEnchantments"}) =>
        LET m == value.of
            j == doc.some
            main == IF m.ItemModifier = "SetCount" THEN "count" ELSE "enchantments"
        IN  /\ IsObj(j)
            /\ Keys(j) = <<"function", main>>
                          \o (IF m.add.bool THEN <<"add">> ELSE <<>>)
            /\ m.add.bool => Get(j, "add") = JBool(TRUE)
            /\ (m.ItemModifier = "SetCount" /\ m.count.NumberProvider = "Constant") =>
                   Get(j, "count") = JInt(m.count.f0.i64)

C13_Witness ==
    /\ value.kind = "ItemModifier"
    /\ value.of = [ItemModifier |-> "SetCount", count |-> Constant(I64(5)),
                   add |-> BoolV(TRUE)]
    /\ JsonText(doc.some) = "{\"function\":\"SetCount\",\"count\":5,\"add\":true}"

\* The key a field of a record is written under.
KeyOf(f) ==
    CASE f = "ty" -> "type"
      [] f = "offset_x" -> "offsetX"
      [] f = "offset_y" -> "offsetY"
      [] f = "offset_z" -> "offsetZ"
      [] OTHER -> f

\* The Option-typed fields of a record or of a variant.
OptionFields(v) ==
    {f \in DOMAIN v \ {"struct", "ItemModifier", "Predicate"} :
        v[f] = None \/ "some" \in DOMAIN v[f]}

\* C14: in every composable sub-predicate record and for every Option-typed
\* variant field, a key appears in the encoded object exactly when its field
\* is set, whatever the other fields hold; a record with every field unset
\* encodes as the empty object {}.
C14_KeysExactlyWhenSet ==
    value.kind \in {"Config", "ItemModifier", "Predicate"} =>
        LET v == value.of
            j == doc.some
            set == {f \in OptionFields(v) : v[f] # None}
        IN  /\ IsObj(j)
            /\ \A f \in OptionFields(v) : HasKey(j, KeyOf(f)) <=> f \in set
            /\ value.kind = "Config" =>
                  /\ OptionFields(v) = DOMAIN v \ {"struct"}
                  /\ Len(Keys(j)) = Cardinality(set)
                  /\ set = {} => JsonText(j) = "{}"

C14_Witness ==
    /\ value.kind = "Config"
    /\ value.of = [Default("EntityPredicate") EXCEPT
                      !.flags = Some(Default("EntityFlags")),
                      !.ty = Some(Unit("Cow"))]
    /\ JsonText(doc.some) = "{\"flags\":{},\"type\":\"cow\"}"

\* The canonical string of the key of an association list: the catalog name
\* of a catalog value, `namespace:seg/.../id` of an identifier.
CanonicalKey(k) ==
    IF "unit" \in DOMAIN k THEN CatalogName(k.unit) ELSE CanonicalIdentifier(k)

\* The association lists of the value encoded, each with the document
\* written for it.
AssociationLists ==
    IF value.kind = "ItemModifier" /\ value.of.ItemModifier = "SetEnchantments"
    THEN {<<value.of.enchantments.slice, Get(doc.some, "enchantments")>>}
    ELSE IF value.kind = "Config" /\ value.of.struct = "PlayerPredicate"
    THEN {<<value.of[f].some.slice, Get(doc.some, f)>> :
            f \in {g \in {"recipes", "advancements"} : value.of[g] # None}}
    ELSE {}

\* C15: an association list (SetEnchantments.enchantments, the recipes and
\* the advancements of PlayerPredicate) encodes as one JSON object with
\* exactly one entry per list element, keyed by the canonical string of the
\* element's key, in the order of the list.
C15_ListsAsObjects ==
    \A a \in AssociationLists :
        /\ IsObj(a[2])
        /\ Len(a[2].jobj) = Len(a[1])
        /\ \A i \in 1..Len(a[1]) : a[2].jobj[i][1] = CanonicalKey(a[1][i].tuple[1])

\* C16: in the advancements of a PlayerPredicate an entry holding Complete(b)
\* encodes as `name: b` and an entry holding Criteria(list) encodes as
\* `name: {criterion: bool, ...}` with one key per listed criterion, also
\* when both variants occur in the same list.
C16_AdvancementShapes ==
    (value.kind = "Config" /\ value.of.struct = "PlayerPredicate"
        /\ value.of.advancements # None) =>
        LET l == value.of.advancements.some.slice
            d == Get(doc.some, "advancements")
        IN  /\ IsObj(d)
            /\ Len(d.jobj) = Len(l)
            /\ \A i \in 1..Len(l) :
                  LET pred == l[i].tuple[2]
                      e == d.jobj[i][2]
                  IN  IF pred.AdvancementPredicate = "Complete"
                      THEN e = JBool(pred.f0.bool)
                      ELSE /\ IsObj(e)
                           /\ e.jobj = [k \in 1..Len(pred.f0.slice) |->
                                          <<pred.f0.slice[k].tuple[1].str,
                                            JBool(pred.f0.slice[k].tuple[2].bool)>>]

C16_Witness ==
    /\ value.kind = "Config"
    /\ value.of.struct = "PlayerPredicate"
    /\ value.of.recipes = None
    /\ JsonText(doc.some) =
          "{\"advancements\":{\"foobar\":false,\"minecraftstory/root\":{\"b\":true}}}"

---------------------------------------------------------------------------
(* Commands with defaulted fields: claims C17 and C18.  Specification Spec. *)

\* C17: Give.output renders `give <target> <item>`, followed by ` <count>`
\* exactly when the count is not the default 1; the target and the item are
\* always printed, and nothing else is.
C17_GiveRendering ==
    cmd.op = "Give" =>
        LastOutput = <<"give", " ">> \o SelectorFmt(cmd.target)
                     \o <<" ", CatalogName(cmd.item)>>
                     \o (IF cmd.count # 1 THEN <<" ", IntFmt(cmd.count)>> ELSE <<>>)

\* The criteria of a selector.
Criteria ==
    {"limit", "sort", "level", "game_mode", "name", "x_rot", "y_rot", "ty", "tag"}

\* A selector of kind s with no criterion set.
IsBareS(t) == t.sel = "S" /\ \A c \in Criteria : t[c] = None

\* C18: a defaulted target is tested against the bare at_s() by selector
\* equality.  Kill renders `kill` when its target equals at_s() and
\* `kill <target>` otherwise; EffectClear prints the target when it differs
\* from at_s() or when the effect is set, and the effect exactly when set.
C18_TargetAgainstBareSelf ==
    /\ cmd.op = "Kill" =>
          LastOutput = <<"kill">>
                       \o (IF IsBareS(cmd.target) THEN <<>>
                           ELSE <<" ">> \o SelectorFmt(cmd.target))
    /\ cmd.op = "EffectClear" =>
          LastOutput = <<"effect clear">>
                       \o (IF IsBareS(cmd.target) /\ cmd.effect = None THEN <<>>
                           ELSE <<" ">> \o SelectorFmt(cmd.target))
                       \o (IF cmd.effect = None THEN <<>>
                           ELSE <<" ", CatalogName(cmd.effect.some)>>)

C18_Witness ==
    /\ cmd = [EffectClear EXCEPT !.effect = Some("Blindness")]
    /\ ovr = {"effect"}
    /\ Str(LastOutput) = "effect clear @s blindness"

---------------------------------------------------------------------------
(* Selectors: claims C19 and C20.  Specification SpecSelector.             *)

\* The letter of each kind of selector.
KindCode(t) ==
    CASE t = "S" -> "s" [] t = "P" -> "p" [] t = "E" -> "e"
      [] t = "A" -> "a" [] t = "R" -> "r"

\* No criterion of the selector is set.
IsBare(s) == \A c \in Criteria : s[c] = None

\* The selectors a built selector is compared with: of every kind, bare,
\* with a tag of either polarity, and with a tag and a limit.
Compared ==
    UNION {{SelectorNew(t), tag(SelectorNew(t), "foo", TRUE),
            tag(SelectorNew(t), "foo", FALSE),
            limit(tag(SelectorNew(t), "foo", TRUE), 1)} : t \in SelectorTypes}

\* C19: a Selector renders as `@<code>` with no brackets exactly when it
\* equals the bare selector of its kind, that is when no criterion is set;
\* with any criterion set it renders with `[` and `]`; and two selectors are
\* equal iff they have the same kind and identical criteria.
C19_BareWithoutBrackets ==
    /\ text # <<>> =>
          /\ (Count(text, "[") = 0) <=> IsBare(sel)
          /\ (Count(text, "[") = 0) <=> (sel = SelectorNew(sel.sel))
          /\ IsBare(sel) => text = <<"@", KindCode(sel.sel)>>
          /\ ~IsBare(sel) =>
                /\ SubSeq(text, 1, 3) = <<"@", KindCode(sel.sel), "[">>
                /\ text[Len(text)] = "]"
                /\ Count(text, "[") = 1 /\ Count(text, "]") = 1
    /\ \A o \in Compared :
          (sel = o) <=> (sel.sel = o.sel /\ \A c \in Criteria : sel[c] = o[c])

C19_Witness ==
    /\ sel = tag(at_a, "foo", TRUE)
    /\ Str(text) = "@a[tag=foo]"

\* The setter calls of the model, each as <<criterion, value>>.
SetterCalls ==
    ({"limit"} \X Limits) \cup ({"sort"} \X Sorts) \cup ({"level"} \X Levels)
    \cup ({"game_mode"} \X GameModes) \cup ({"name"} \X Names)
    \cup ({"x_rot"} \X Rotations) \cup ({"y_rot"} \X Rotations)
    \cup ({"ty"} \X Entities) \cup ({"tag"} \X Tags)

\* The selector a setter call returns.
Call(s, k) ==
    CASE k[1] = "limit" -> limit(s, k[2])
      [] k[1] = "sort" -> sort(s, k[2])
      [] k[1] = "level" -> level(s, k[2][1], k[2][2])
      [] k[1] = "game_mode" -> game_mode(s, k[2][1], k[2][2])
      [] k[1] = "name" -> name(s, k[2][1], k[2][2])
      [] k[1] = "x_rot" -> x_rot(s, k[2][1], k[2][2])
      [] k[1] = "y_rot" -> y_rot(s, k[2][1], k[2][2])
      [] k[1] = "ty" -> entity(s, k[2][1], k[2][2])
      [] k[1] = "tag" -> tag(s, k[2][1], k[2][2])

\* C20: each setter changes exactly its own criterion, to the value given,
\* and leaves the kind and every other criterion unchanged; so two setters
\* of different criteria give equal selectors with identical renderings in
\* either order, and of two calls of one setter the last value stands.  The
\* renderings are compared in the states where Display has written.
C20_SettersIndependent ==
    /\ \A k \in SetterCalls :
          /\ Call(sel, k).sel = sel.sel
          /\ Call(sel, k)[k[1]] = Some(k[2])
          /\ \A c \in Criteria \ {k[1]} : Call(sel, k)[c] = sel[c]
    /\ \A j, k \in SetterCalls :
          LET jk == Call(Call(sel, j), k)
              kj == Call(Call(sel, k), j)
          IN  IF j[1] = k[1] THEN jk = Call(sel, k)
              ELSE jk = kj /\ (text # <<>> => SelectorFmt(jk) = SelectorFmt(kj))

C20_Witness ==
    /\ sel = game_mode(level(tag(at_e, "foo", FALSE), 3, 5), "Creative", TRUE)
    /\ sel = tag(game_mode(level(at_e, 3, 5), "Creative", TRUE), "foo", FALSE)
    /\ text = SelectorFmt(sel)

\* The tokens `item` stand in `t` one after the other.
Occurs(item, t) ==
    \E i \in 1..(Len(t) - Len(item) + 1) : SubSeq(t, i, i + Len(item) - 1) = item

\* The polarity and the range criteria, each as <<field, key>>.
PolarityCriteria ==
    {<<"game_mode", "gamemode">>, <<"name", "name">>, <<"ty", "type">>, <<"tag", "tag">>}
RangeCriteria ==
    {<<"level", "level">>, <<"x_rot", "x_rotation">>, <<"y_rot", "y_rotation">>}

\* The value of a polarity criterion as it is written.
ValueText(field, v) ==
    CASE field = "game_mode" -> GameModeFmt(v)
      [] field = "ty" -> CatalogName(v)
      [] OTHER -> v

\* C28: in a rendered selector a polarity criterion (gamemode, name, type,
\* tag) that is set is written `key=value` when its flag is positive and
\* `key=!value` when it is negative, and a range criterion (level,
\* x_rotation, y_rotation) that is set is written `key=min..max`;
\* at_a().game_mode(Spectator, false) renders `@a[gamemode=!spectator]` and
\* at_a().level(3, 5) renders `@a[level=3..5]`.
C28_PolarityAndRangeItems ==
    text # <<>> =>
        /\ \A c \in PolarityCriteria :
              sel[c[1]] # None =>
                 Occurs(<<c[2], "=">>
                        \o (IF sel[c[1]].some[2] THEN <<>> ELSE <<"!">>)
                        \o <<ValueText(c[1], sel[c[1]].some[1])>>, text)
        /\ \A c \in RangeCriteria :
              sel[c[1]] # None =>
                 Occurs(<<c[2], "=", ToString(sel[c[1]].some[1]), "..",
                          ToString(sel[c[1]].some[2])>>, text)
        /\ sel = game_mode(at_a, "Spectator", FALSE)
              => Str(text) = "@a[gamemode=!spectator]"
        /\ sel = level(at_a, 3, 5) => Str(text) = "@a[level=3..5]"

C28_Witness ==
    /\ sel = game_mode(at_a, "Spectator", FALSE)
    /\ Str(text) = "@a[gamemode=!spectator]"

---------------------------------------------------------------------------
(* Coordinates: claim C21.  Specification Spec.                            *)

\* One axis under zero-elision: the sign alone for 0, the sign and the
\* literal otherwise.
Elided(sign, v) == IF v = 0 THEN <<sign>> ELSE <<sign, F64Fmt(v)>>

\* One axis of mixed coordinates.
AxisText(c) == IF c.kind = "Relative" THEN Elided("~", c.x) ELSE <<F64Fmt(c.x)>>

\* C21: Relative(0) renders `~` and Relative(v), v # 0, renders `~v`;
\* Absolute(v) always renders its literal, also for 0; Mixed renders its
\* three axes separated by single spaces; Local(x, y, z) renders `^x ^y ^z`
\* with each zero axis as the bare `^`.
C21_ZeroElisionPerAxis ==
    cmd.op = "Setblock" =>
        LET l == cmd.location
            expected ==
                IF l.kind = "Local"
                THEN Elided("^", l.lx) \o <<" ">> \o Elided("^", l.ly)
                     \o <<" ">> \o Elided("^", l.lz)
                ELSE AxisText(l.x) \o <<" ">> \o AxisText(l.y)
                     \o <<" ">> \o AxisText(l.z)
        IN  Str(LastOutput)
              = Str(<<"setblock", " ">> \o expected \o <<" ", CatalogName(cmd.block)>>)

C21_Witness ==
    /\ cmd = Setblock(Local(0, 0, 50), "Air")
    /\ Str(LastOutput) = "setblock ^ ^ ^5 air"

\* A document that holds a failure, at any depth.
RECURSIVE Fails(_)
Fails(j) ==
    \/ "jfail" \in DOMAIN j
    \/ "jarr" \in DOMAIN j /\ \E i \in 1..Len(j.jarr) : Fails(j.jarr[i])
    \/ "jobj" \in DOMAIN j /\ \E i \in 1..Len(j.jobj) : Fails(j.jobj[i][2])

\* C23: encoding is total: every value handed to the encoder yields a
\* document, and no part of it is a failure; the unreachable!() arm of the
\* NumberProvider encoding and the unwrap() of serialize_advancements are
\* never reached with a failing value.
C23_EncodingTotal ==
    value.kind # "None" => (doc # None /\ ~Fails(doc.some))

C23_Witness ==
    /\ value.kind = "Config"
    /\ value.of.struct = "PlayerPredicate"
    /\ value.of.advancements = None
    /\ value.of.level # None
    /\ IsObj(doc.some) /\ Keys(doc.some) = <<"level">>
    /\ ~Fails(doc.some)

\* C27: the scores of an EntityScores predicate encode as one JSON object
\* keyed by objective, with one entry per (objective, value) pair in the
\* order of the list, and not as an array of pairs.
C27_ScoresAsObject ==
    (value.kind = "Predicate" /\ value.of.Predicate = "EntityScores") =>
        LET l == value.of.scores.slice
            d == Get(doc.some, "scores")
        IN  /\ IsObj(d)
            /\ Len(d.jobj) = Len(l)
            /\ \A i \in 1..Len(l) : d.jobj[i][1] = l[i].tuple[1].str

---------------------------------------------------------------------------
(* Identifiers and the files of a datapack: claims C22, C24, C25, C26.     *)
(* Specification SpecPack.                                                 *)

\* C22: Identifier::new(namespace, parts) with a non-empty list of parts
\* returns the identifier whose folders are all parts but the last, in
\* order, and whose id is the last part; with an empty list it panics and
\* returns no identifier.
C22_NewSplitsOrPanics ==
    call.op = "Identifier::new" =>
        IF call.parts = <<>>
        THEN call.outcome = "panicked" /\ "result" \notin DOMAIN call.end
        ELSE /\ call.outcome = "returned"
             /\ call.end.result.namespace = call.namespace
             /\ call.end.result.folders
                  = [i \in 1..(Len(call.parts) - 1) |-> call.parts[i]]
             /\ call.end.result.id = call.parts[Len(call.parts)]

C22_Witness ==
    /\ call.op = "Identifier::new"
    /\ call.namespace = "foo" /\ call.parts = <<>>
    /\ call.outcome = "panicked"

\* C26: every identifier returned by Identifier::new has a non-empty
\* namespace and a non-empty id.
C26_ReturnedIdentifierNonEmpty ==
    (call.op = "Identifier::new" /\ call.outcome = "returned") =>
        /\ call.end.result.namespace # ""
        /\ call.end.result.id # ""

\* The sink operations that create or write.
CreatesAndWrites ==
    {"create_dir_all", "File::create", "fs::write", "serde_json::to_writer", "write!"}

SinkCalls ==
    {"Datapack::new", "Datapack::function", "Function::run",
     "Datapack::item_modifier", "Datapack::predicate"}

\* C24: in Datapack::new, Datapack::function, Function::run,
\* Datapack::item_modifier and Datapack::predicate, a call in which creating
\* a directory, creating a file or writing failed ends in a panic; no call
\* returns normally after a failed create or write.
C24_FailedSinkAborts ==
    (call.op \in SinkCalls /\ call.failed \cap CreatesAndWrites # {}) =>
        call.outcome = "panicked"

C24_Witness ==
    /\ call.op = "Datapack::item_modifier"
    /\ call.location = Some(IdentifierNew("foo", <<"bar">>))
    /\ call.failed = {"create_dir_all", "File::create"}
    /\ call.sink.create
    /\ call.outcome = "panicked"

\* C25: Datapack::item_modifier and Datapack::predicate on a sink that
\* grants every operation return normally and leave the document written at
\* data/<namespace>/<item_modifiers|predicates>/<folders...>/<id>.json, for
\* every identifier, those with folder segments included.
C25_DocumentWrittenAtPath ==
    (/\ call.op \in {"Datapack::item_modifier", "Datapack::predicate"}
     /\ call.sink = Granting) =>
        /\ call.outcome = "returned"
        /\ join(call.location.some,
                IF call.op = "Datapack::item_modifier"
                THEN "item_modifiers" ELSE "predicates", "json") \in fs.written

---------------------------------------------------------------------------
(* Scores: claims C29 and C30.  Specification SpecScore.                   *)

\* The lines of a sequence of lines, one after the other.
RECURSIVE Lines(_)
Lines(ls) == IF ls = <<>> THEN <<>> ELSE Head(ls) \o Lines(Tail(ls))

\* C29: the lines written by Function::run and by the operations on the
\* ScoreValues of the same function stand in the file in the order the
\* calls were made: at every moment the file is the lines of all calls so
\* far in call order, and every call that writes leaves what the file held
\* in place and puts its own line after it.
C29_LinesInCallOrder ==
    /\ [](out = Lines(log))
    /\ [][log' # log => (/\ Len(log') = Len(log) + 1
                         /\ out' = out \o log'[Len(log')])]_vars

C29_Witness ==
    /\ runs = 1
    /\ Len(scores) = 2
    /\ scores[1].name = "#x" /\ scores[2].name = "#y"
    /\ cmd.op = "add i64"
    /\ Str(out) = "scoreboard players set #y global 5\nkill\nscoreboard players add #x global 5\n"

\* The operators that take another score, each with the operation the
\* scoreboard has for it.
MatchingOperation ==
    [add |-> "+=", sub |-> "-=", mul |-> "*=", div |-> "/=", rem |-> "%="]

\* C30: each ScoreValue operator that takes another score writes the line
\* `scoreboard players operation <name> <objective> <op> <rhs name>
\* <rhs objective>` with the operation that matches it: += for +, -= for -,
\* *= for *, /= for / and %= for %.
C30_OperatorEmitsMatchingOperation ==
    cmd.op \in DOMAIN MatchingOperation =>
        Str(log[Len(log)]) =
            "scoreboard players operation " \o cmd.lhs.name \o " " \o cmd.lhs.objective
            \o " " \o MatchingOperation[cmd.op] \o " "
            \o cmd.rhs.some.name \o " " \o cmd.rhs.some.objective \o "\n"

====
